---- MODULE Spec2Model ----
(***************************************************************************)
(* Real-time synchronisation core of TaskMaster 2010:                      *)
(*   - the axios client with its token-refresh interceptor   (SpecAuth)    *)
(*   - the react-query cache, its optimistic mutations and the WebSocket   *)
(*     event reconciler                                       (SpecCache)   *)
(*   - the server-side WebSocket hub                          (SpecHub)     *)
(*   - the mutation handlers in front of the hub             (SpecHandlers)*)
(*   - the server's refresh and logout endpoints              (SpecSess)    *)
(*   - the client's WebSocket transport                       (SpecWs)      *)
(* The parts share no state; each specification moves its own variables    *)
(* and leaves the others unchanged.                                        *)
(***************************************************************************)
EXTENDS Integers, Sequences, FiniteSets, TLC

\* ------------------------------------------------------------------------
\* Bounds
\* ------------------------------------------------------------------------
\* number of REST requests the client issues
NumReq == 2

\* ------------------------------------------------------------------------
\* Generic helpers
\* ------------------------------------------------------------------------
Range(s) == {s[i] : i \in 1..Len(s)}

\* ========================================================================
\* PART 1 - API client and refresh interceptor
\* ========================================================================
VARIABLES
    token,          \* localStorage 'token'         (NoTok when absent)
    refreshToken,   \* localStorage 'refreshToken'  (NoTok when absent)
    offlineCache,   \* localStorage 'REACT_QUERY_OFFLINE_CACHE' present
    isRefreshing,   \* module variable isRefreshing
    failedQueue,    \* module variable failedQueue (sequence of requests)
    req,            \* the requests: status, Authorization sent, _retry, sends
    rf,             \* the refresh call started by each request, if any
    reloadPending,  \* window.location.reload() called, page not yet unloaded
    sessions,       \* server: refresh tokens with a live session
    expired,        \* server: access tokens 0..expired-1 are past their expiry
    nextTok,        \* server: next credential pair to issue
    refreshCalls    \* number of calls made to the refresh endpoint

authVars == <<token, refreshToken, offlineCache, isRefreshing, failedQueue,
              req, rf, reloadPending, sessions, expired, nextTok,
              refreshCalls>>

\* PART 2 - react-query cache (declared here, described below)
VARIABLES
    tasksQ,         \* query data of ['tasks']: loaded flag and the Task[]
    listsQ,         \* query data of ['lists']: loaded flag and the List[]
    tasksStale,     \* ['tasks'] was invalidated
    listsStale,     \* ['lists'] was invalidated
    muts,           \* the mutations: variables, onMutate context, progress
    now,            \* Date.now()
    srvIds,         \* server: next id of the tasks, lists and subtasks tables
    wsQueue,        \* envelopes of own mutations on the way, in commit order
    envCount        \* envelopes of other sessions applied so far

cacheVars == <<tasksQ, listsQ, tasksStale, listsStale, muts, now, srvIds,
               wsQueue, envCount>>

\* PART 3 - hub (declared here, described below)
VARIABLES
    clients,        \* Hub.clients: userID -> set of registered connections
    broadcast,      \* Hub.broadcast: the buffered channel
    hub,            \* Hub.Run: where the loop is, the message and the set it ranges over
    cst,            \* per connection: new, open (its pumps run), gone
    send,           \* Client.send: the buffered channel
    closed,         \* Client.send was closed
    enq,            \* the last envelope put on Client.send
    nextMsg,        \* envelopes are numbered in publish order (SpecHub) or in
                    \* the order of the writes they announce (SpecHandlers)
    hnd             \* the mutation handlers that are running

hubVars == <<clients, broadcast, hub, cst, send, closed, enq, nextMsg, hnd>>

\* PART 4 - sessions on the server (declared here, described below)
VARIABLES
    db,             \* table sessions: the token_hash column of its rows
    jwtLive,        \* the access tokens whose exp claim is still ahead
    issued,         \* number of credential pairs generateAuthResponse made
    calls           \* the requests to /api/auth/refresh and /api/auth/logout

sessVars == <<db, jwtLive, issued, calls>>

\* PART 5 - useWebSocket (declared here, described below)
VARIABLES
    lsToken,              \* localStorage has a 'token'
    sock,                 \* the WebSocket objects: readyState of each
    wsRef,                \* wsRef.current                  (0: null)
    isConnecting,         \* isConnecting.current
    reconnectAttempts,    \* reconnectAttempts.current
    timers,               \* the pending timeouts: the delay of each
    reconnectTimeoutRef   \* reconnectTimeoutRef.current    (0: null)

wsVars == <<lsToken, sock, wsRef, isConnecting, reconnectAttempts, timers,
            reconnectTimeoutRef>>

\* PART 6 - one connection from Client.send to ws.onmessage (declared
\* here, described below)
VARIABLES
    pipe    \* send: the marshalled envelopes on Client.send; wire: the text
            \* frames under way; handed: the envelopes handleWebSocketEvent
            \* was called with; enqueued: the envelopes BroadcastToUser took

vars == <<authVars, cacheVars, hubVars, sessVars, wsVars, pipe>>

nonAuthVars == <<cacheVars, hubVars, sessVars, wsVars, pipe>>
nonCacheVars == <<authVars, hubVars, sessVars, wsVars, pipe>>
nonHubVars == <<authVars, cacheVars, sessVars, wsVars, pipe>>
nonSessVars == <<authVars, cacheVars, hubVars, wsVars, pipe>>
nonWsVars == <<authVars, cacheVars, hubVars, sessVars, pipe>>
nonPipeVars == <<authVars, cacheVars, hubVars, sessVars, wsVars>>

Req == 1..NumReq
NoTok == -1
NoRefresh == [st |-> "none", rt |-> NoTok, new |-> NoTok]

\* request interceptor followed by the transport: the request leaves with
\* the access token that is in localStorage at that moment
SendWith(q, tok) == [q EXCEPT !.st = "inflight", !.tok = tok, !.sends = @ + 1]

InitAuth ==
    /\ token = 0
    /\ refreshToken \in {NoTok, 0}
    /\ offlineCache = TRUE
    /\ isRefreshing = FALSE
    /\ failedQueue = <<>>
    /\ req = [r \in Req |-> [st |-> "new", tok |-> NoTok, retry |-> FALSE, sends |-> 0]]
    /\ rf = [r \in Req |-> NoRefresh]
    /\ reloadPending = FALSE
    /\ sessions = {0}
    /\ expired = 0
    /\ nextTok = 1
    /\ refreshCalls = 0

\* api.get / api.post ...: a request is issued
Send(r) ==
    /\ UNCHANGED nonAuthVars
    /\ req[r].st = "new"
    /\ ~reloadPending
    /\ req' = [req EXCEPT ![r] = SendWith(@, token)]
    /\ UNCHANGED <<token, refreshToken, offlineCache, isRefreshing, failedQueue,
                   rf, reloadPending, sessions, expired, nextTok, refreshCalls>>

\* server: the oldest live access token reaches its expiry (tokens have one
\* fixed lifetime, so they expire in the order they were issued)
Expire ==
    /\ UNCHANGED nonAuthVars
    /\ expired < nextTok
    /\ expired' = expired + 1
    /\ UNCHANGED <<token, refreshToken, offlineCache, isRefreshing, failedQueue,
                   req, rf, reloadPending, sessions, nextTok, refreshCalls>>

\* response interceptor, success branch
RespOK(r) ==
    /\ UNCHANGED nonAuthVars
    /\ req[r].st = "inflight"
    /\ req[r].tok # NoTok
    /\ req[r].tok >= expired
    /\ req' = [req EXCEPT ![r].st = "ok"]
    /\ UNCHANGED <<token, refreshToken, offlineCache, isRefreshing, failedQueue,
                   rf, reloadPending, sessions, expired, nextTok, refreshCalls>>

\* response interceptor, error other than 401: passed to the caller
RespError(r) ==
    /\ UNCHANGED nonAuthVars
    /\ req[r].st = "inflight"
    /\ req' = [req EXCEPT ![r].st = "failed"]
    /\ UNCHANGED <<token, refreshToken, offlineCache, isRefreshing, failedQueue,
                   rf, reloadPending, sessions, expired, nextTok, refreshCalls>>

\* (mutant) the long-lived credential is left in storage
HandleAuthFailure_KeepRefresh ==
    /\ token' = NoTok
    /\ refreshToken' = refreshToken
    /\ offlineCache' = FALSE
    /\ reloadPending' = (reloadPending \/ token # NoTok)

\* handleAuthFailure: the three removeItem calls and the reload decision
\* (the application has no /login route, so the path test never holds)
HandleAuthFailure ==
    /\ token' = NoTok
    /\ refreshToken' = NoTok
    /\ offlineCache' = FALSE
    /\ reloadPending' = (reloadPending \/ token # NoTok)

\* (mutant) the isRefreshing test is missing
Branch401_NoGuard(r) ==
    IF req[r].retry THEN "signout"
    ELSE IF refreshToken = NoTok THEN "signout"
    ELSE "refresh"

\* which branch of the 401 handler a request takes
Branch401(r) ==
    IF req[r].retry THEN "signout"
    ELSE IF refreshToken = NoTok THEN "signout"
    ELSE IF isRefreshing THEN "queue"
    ELSE "refresh"

\* (mutant) the refresh token of the pair the request was sent with
RefreshBody_AtSend(r) == req[r].tok

\* const refreshToken = localStorage.getItem('refreshToken'), read when the
\* 401 is handled, is the body of the refresh call
RefreshBody(r) == refreshToken

\* response interceptor, 401 branch
Resp401(r) ==
    /\ UNCHANGED nonAuthVars
    /\ req[r].st = "inflight"
    /\ req[r].tok < expired
    /\ UNCHANGED <<sessions, expired, nextTok>>
    /\ CASE Branch401(r) = "signout" ->
              /\ HandleAuthFailure
              /\ req' = [req EXCEPT ![r].st = "rejected"]
              /\ UNCHANGED <<isRefreshing, failedQueue, rf, refreshCalls>>
         [] Branch401(r) = "queue" ->
              /\ failedQueue' = Append(failedQueue, r)
              /\ req' = [req EXCEPT ![r].st = "queued"]
              /\ UNCHANGED <<token, refreshToken, offlineCache, isRefreshing,
                             rf, reloadPending, refreshCalls>>
         [] Branch401(r) = "refresh" ->
              /\ req' = [req EXCEPT ![r].st = "refreshing", ![r].retry = TRUE]
              /\ isRefreshing' = TRUE
              /\ rf' = [rf EXCEPT ![r] = [st |-> "sent", rt |-> RefreshBody(r), new |-> NoTok]]
              /\ refreshCalls' = refreshCalls + 1
              /\ UNCHANGED <<token, refreshToken, offlineCache, failedQueue,
                             reloadPending>>

\* server: handleRefresh looks the session up, rotates it and issues a pair
\* (the handler as the client expects it; the middleware the route is
\* registered behind is in part 4)
ServerRefresh(r) ==
    /\ UNCHANGED nonAuthVars
    /\ rf[r].st = "sent"
    /\ IF rf[r].rt \in sessions
          THEN /\ sessions' = (sessions \ {rf[r].rt}) \cup {nextTok}
               /\ rf' = [rf EXCEPT ![r].st = "resp_ok", ![r].new = nextTok]
               /\ nextTok' = nextTok + 1
          ELSE /\ rf' = [rf EXCEPT ![r].st = "resp_fail"]
               /\ UNCHANGED <<sessions, nextTok>>
    /\ UNCHANGED <<token, refreshToken, offlineCache, isRefreshing, failedQueue,
                   req, reloadPending, expired, refreshCalls>>

\* (mutant) processQueue leaves its entries in the queue
ProcessQueueClear_Keep(q) == q

\* processQueue, last statement: failedQueue = []
ProcessQueueClear(q) == <<>>

\* (mutant) the queue is emptied without retrying its entries
ProcessQueueRetry_Forget(rq, tok) == rq

\* processQueue(): every queued request is issued again
ProcessQueueRetry(rq, tok) ==
    [q \in Req |-> IF q \in Range(failedQueue) THEN SendWith(rq[q], tok) ELSE rq[q]]

\* processQueue(error): every queued caller is rejected with the refresh error
ProcessQueueReject(rq) ==
    [q \in Req |-> IF q \in Range(failedQueue)
                      THEN [rq[q] EXCEPT !.st = "rejected_refresh"] ELSE rq[q]]

\* the try block after the awaited refresh call returned 2xx, and finally
RefreshSuccess(r) ==
    /\ UNCHANGED nonAuthVars
    /\ rf[r].st = "resp_ok"
    /\ token' = rf[r].new
    /\ refreshToken' = rf[r].new
    /\ req' = [ProcessQueueRetry(req, rf[r].new) EXCEPT ![r] = SendWith(req[r], rf[r].new)]
    /\ failedQueue' = ProcessQueueClear(failedQueue)
    /\ isRefreshing' = FALSE
    /\ rf' = [rf EXCEPT ![r] = NoRefresh]
    /\ UNCHANGED <<offlineCache, reloadPending, sessions, expired, nextTok,
                   refreshCalls>>

\* the catch block (the refresh call was answered non-2xx or got no answer),
\* and finally
RefreshFail(r) ==
    /\ UNCHANGED nonAuthVars
    /\ rf[r].st # "none"
    /\ HandleAuthFailure
    /\ req' = [ProcessQueueReject(req) EXCEPT ![r].st = "rejected_refresh"]
    /\ failedQueue' = ProcessQueueClear(failedQueue)
    /\ isRefreshing' = FALSE
    /\ rf' = [rf EXCEPT ![r] = NoRefresh]
    /\ UNCHANGED <<sessions, expired, nextTok, refreshCalls>>

\* the page unloads after window.location.reload(): module state starts
\* afresh and every pending call of the old page is gone
Reload ==
    /\ UNCHANGED nonAuthVars
    /\ reloadPending
    /\ reloadPending' = FALSE
    /\ isRefreshing' = FALSE
    /\ failedQueue' = <<>>
    /\ req' = [q \in Req |-> IF req[q].st \in {"inflight", "queued", "refreshing"}
                                THEN [req[q] EXCEPT !.st = "aborted"] ELSE req[q]]
    /\ rf' = [q \in Req |-> NoRefresh]
    /\ UNCHANGED <<token, refreshToken, offlineCache, sessions, expired, nextTok,
                   refreshCalls>>

NextAuth ==
    \/ \E r \in Req : Send(r)
    \/ Expire
    \/ \E r \in Req : RespOK(r)
    \/ \E r \in Req : RespError(r)
    \/ \E r \in Req : Resp401(r)
    \/ \E r \in Req : ServerRefresh(r)
    \/ \E r \in Req : RefreshSuccess(r)
    \/ \E r \in Req : RefreshFail(r)
    \/ Reload

\* ========================================================================
\* PART 2 - react-query cache, optimistic mutations, WebSocket reconciler
\* ========================================================================
\* number of mutations the user starts
MaxMut == 1
\* number of envelopes caused by other sessions
MaxEnv == 1
\* Date.now() when the page starts: temp ids are millisecond timestamps
TempBase == 100

Task(id, listId, sortOrder, text, subs) ==
    [id |-> id, listId |-> listId, sortOrder |-> sortOrder, text |-> text,
     subtasks |-> subs]
Subtask(id, taskId, text) == [id |-> id, taskId |-> taskId, text |-> text]
List(id, title) == [id |-> id, title |-> title]

\* getQueryData: undefined until the query has data
Undefined == [loaded |-> FALSE, data |-> <<>>]
Loaded(d) == [loaded |-> TRUE, data |-> d]

\* texts: 0 as fetched, 1 typed in this session, 2 written by another session
\* listId 0 stands for a task without listId
ServerTasks == <<Task(1, 1, 0, 0, <<Subtask(1, 1, 0)>>), Task(2, 0, 1, 0, <<>>)>>
ServerLists == <<List(1, 0)>>

NoTask == Task(-1, 0, 0, 0, <<>>)
NoSub == Subtask(-1, 0, 0)
NoList == List(-1, 0)

Ids(s) == {s[i].id : i \in 1..Len(s)}
HasId(s, id) == \E i \in 1..Len(s) : s[i].id = id
MapSeq(s, F(_)) == [i \in 1..Len(s) |-> F(s[i])]
WithoutId(s, id) == SelectSeq(s, LAMBDA x : x.id # id)
ReplaceById(s, x) == MapSeq(s, LAMBDA y : IF y.id = x.id THEN x ELSE y)

\* new Map(tasks.map(t => [t.id, t])).get(id): the last entry with that id
MapGet(s, id) ==
    IF HasId(s, id)
       THEN s[CHOOSE i \in 1..Len(s) : s[i].id = id /\ \A j \in (i+1)..Len(s) : s[j].id # id]
       ELSE NoTask

\* (mutant) the tasks not named are put first
Reordered_MissingFirst(ts, ids) ==
    SelectSeq(ts, LAMBDA t : t.id \notin Range(ids))
      \o SelectSeq([i \in 1..Len(ids) |->
                      IF HasId(ts, ids[i]) THEN [MapGet(ts, ids[i]) EXCEPT !.sortOrder = i - 1]
                      ELSE NoTask],
                   LAMBDA t : t.id # -1)

\* the reorder of useReorderTasks.onMutate and of the tasks_reordered case:
\* taskIds.map(...).filter(defined) followed by the tasks not in taskIds
Reordered(ts, ids) ==
    SelectSeq([i \in 1..Len(ids) |->
                 IF HasId(ts, ids[i]) THEN [MapGet(ts, ids[i]) EXCEPT !.sortOrder = i - 1]
                 ELSE NoTask],
              LAMBDA t : t.id # -1)
      \o SelectSeq(ts, LAMBDA t : t.id \notin Range(ids))

\* envelopes {type, payload}
Envelope(type, task, sub, list, id, ids) ==
    [type |-> type, task |-> task, sub |-> sub, list |-> list, id |-> id, ids |-> ids]
NoEnv == Envelope("none", NoTask, NoSub, NoList, 0, <<>>)
TaskEnv(type, t) == Envelope(type, t, NoSub, NoList, 0, <<>>)
SubEnv(type, x) == Envelope(type, NoTask, x, NoList, 0, <<>>)
ListEnv(type, l) == Envelope(type, NoTask, NoSub, l, 0, <<>>)
IdEnv(type, id) == Envelope(type, NoTask, NoSub, NoList, id, <<>>)
IdsEnv(type, ids) == Envelope(type, NoTask, NoSub, NoList, 0, ids)

Caches(t, l) == [tasks |-> t, lists |-> l]

\* (mutant) the payload is appended without looking for its id
AppendIfAbsent_Always(s, x) == Append(s, x)

\* if (!entries.some(x => x.id === payload.id)) [...entries, payload]
AppendIfAbsent(s, x) == IF HasId(s, x.id) THEN s ELSE Append(s, x)

\* handleWebSocketEvent: the switch over event.type, given that tasks is loaded
ApplyEvent(t, l, e) ==
    CASE e.type = "task_created" ->
           Caches(Loaded(AppendIfAbsent(t.data, e.task)), l)
      [] e.type = "task_updated" ->
           Caches(Loaded(ReplaceById(t.data, e.task)), l)
      [] e.type = "task_deleted" ->
           Caches(Loaded(WithoutId(t.data, e.id)), l)
      [] e.type = "tasks_reordered" ->
           Caches(Loaded(Reordered(t.data, e.ids)), l)
      [] e.type = "subtask_created" ->
           Caches(Loaded(MapSeq(t.data, LAMBDA x :
                    IF x.id = e.sub.taskId
                       THEN [x EXCEPT !.subtasks = AppendIfAbsent(@, e.sub)] ELSE x)), l)
      [] e.type = "subtask_updated" ->
           Caches(Loaded(MapSeq(t.data, LAMBDA x :
                    [x EXCEPT !.subtasks = ReplaceById(@, e.sub)])), l)
      [] e.type = "subtask_deleted" ->
           Caches(Loaded(MapSeq(t.data, LAMBDA x :
                    [x EXCEPT !.subtasks = WithoutId(@, e.id)])), l)
      [] e.type = "list_created" ->
           Caches(t, IF l.loaded THEN Loaded(AppendIfAbsent(l.data, e.list)) ELSE l)
      [] e.type = "list_updated" ->
           Caches(t, IF l.loaded THEN Loaded(ReplaceById(l.data, e.list)) ELSE l)
      [] e.type = "list_deleted" ->
           Caches(t, IF l.loaded THEN Loaded(WithoutId(l.data, e.id)) ELSE l)
      [] OTHER -> Caches(t, l)

\* (mutant) the switch runs whether or not ['tasks'] has data
HandleWebSocketEvent_NoGuard(t, l, e) == ApplyEvent(t, l, e)

\* handleWebSocketEvent: nothing is done while ['tasks'] has no data
HandleWebSocketEvent(t, l, e) ==
    IF ~t.loaded THEN Caches(t, l) ELSE ApplyEvent(t, l, e)

\* ------------------------------------------------------------------------
\* The mutation hooks (useCreateTask ... useDeleteList)
\* ------------------------------------------------------------------------
\* the mutations that can be started (their slots)
Mut == DOMAIN muts
TaskKinds == {"createTask", "updateTask", "deleteTask", "reorderTasks",
              "createSubtask", "updateSubtask", "deleteSubtask"}
ListKinds == {"createList", "updateList", "deleteList"}
CreateKinds == {"createTask", "createSubtask", "createList"}

\* mutation variables: target id, listId of a new task, ids of a reorder
V(id, listId, ids) == [id |-> id, listId |-> listId, ids |-> ids]

NoMut == [kind |-> "none", v |-> V(0, 0, <<>>), prevT |-> Undefined,
          prevL |-> Undefined, tempId |-> 0, phase |-> "none", sid |-> 0,
          echo |-> "none"]

SubIds(ts) == UNION {Ids(ts[i].subtasks) : i \in 1..Len(ts)}

\* handleReorder: splice the moved element out and back in
ArrayMove(s, o, n) ==
    LET rest == [i \in 1..(Len(s) - 1) |-> IF i < o THEN s[i] ELSE s[i + 1]]
    IN  SubSeq(rest, 1, n - 1) \o <<s[o]>> \o SubSeq(rest, n, Len(rest))

\* what the components can pass to mutate(), given what is on screen
Variables(k) ==
    CASE k = "createTask" ->
           {V(0, l, <<>>) : l \in {0} \cup (IF listsQ.loaded THEN Ids(listsQ.data) ELSE {})}
      [] k \in {"updateTask", "deleteTask", "createSubtask"} ->
           {V(i, 0, <<>>) : i \in Ids(tasksQ.data)}
      [] k = "reorderTasks" ->
           {V(0, 0, MapSeq(ArrayMove(tasksQ.data, o, n), LAMBDA t : t.id)) :
              o \in 1..Len(tasksQ.data), n \in 1..Len(tasksQ.data)}
      [] k \in {"updateSubtask", "deleteSubtask"} ->
           {V(i, 0, <<>>) : i \in SubIds(tasksQ.data)}
      [] k = "createList" -> {V(0, 0, <<>>)}
      [] k \in {"updateList", "deleteList"} ->
           {V(i, 0, <<>>) : i \in Ids(listsQ.data)}

\* (mutant) the tasks of the list are left in the cache
WithoutList_Keep(ts, id) == ts

\* tasks.filter(task => task.listId !== id)
WithoutList(ts, id) == SelectSeq(ts, LAMBDA x : x.listId # id)

\* onMutate after the awaited cancelQueries: the optimistic edit
OnMutate(k, v, t, l, tmp) ==
    CASE k = "createTask" ->
           Caches(IF t.loaded
                     THEN Loaded(Append(t.data, Task(tmp, v.listId, Len(t.data) + 1, 1, <<>>)))
                     ELSE Loaded(<<Task(tmp, v.listId, 1, 1, <<>>)>>), l)
      [] k = "updateTask" ->
           Caches(IF t.loaded
                     THEN Loaded(MapSeq(t.data, LAMBDA x :
                            IF x.id = v.id THEN [x EXCEPT !.text = 1] ELSE x))
                     ELSE t, l)
      [] k = "deleteTask" ->
           Caches(IF t.loaded THEN Loaded(WithoutId(t.data, v.id)) ELSE t, l)
      [] k = "reorderTasks" ->
           Caches(IF t.loaded THEN Loaded(Reordered(t.data, v.ids)) ELSE t, l)
      [] k = "createSubtask" ->
           Caches(IF t.loaded
                     THEN Loaded(MapSeq(t.data, LAMBDA x :
                            IF x.id = v.id
                               THEN [x EXCEPT !.subtasks = Append(@, Subtask(tmp, v.id, 1))]
                               ELSE x))
                     ELSE t, l)
      [] k = "updateSubtask" ->
           Caches(IF t.loaded
                     THEN Loaded(MapSeq(t.data, LAMBDA x :
                            [x EXCEPT !.subtasks = MapSeq(@, LAMBDA s :
                                IF s.id = v.id THEN [s EXCEPT !.text = 1] ELSE s)]))
                     ELSE t, l)
      [] k = "deleteSubtask" ->
           Caches(IF t.loaded
                     THEN Loaded(MapSeq(t.data, LAMBDA x :
                            [x EXCEPT !.subtasks = WithoutId(@, v.id)]))
                     ELSE t, l)
      [] k = "createList" ->
           Caches(t, IF l.loaded THEN Loaded(Append(l.data, List(tmp, 1)))
                                 ELSE Loaded(<<List(tmp, 1)>>))
      [] k = "updateList" ->
           Caches(t, IF l.loaded
                        THEN Loaded(MapSeq(l.data, LAMBDA x :
                               IF x.id = v.id THEN [x EXCEPT !.title = 1] ELSE x))
                        ELSE l)
      [] k = "deleteList" ->
           Caches(IF t.loaded
                     THEN Loaded(WithoutList(t.data, v.id)) ELSE t,
                  IF l.loaded THEN Loaded(WithoutId(l.data, v.id)) ELSE l)

\* (mutant) onSuccess removes the temp entry only
WithoutTempAndReal_TempOnly(s, tmp, real) == SelectSeq(s, LAMBDA x : x.id # tmp)

\* the double filter of useCreateTask / useCreateList onSuccess
WithoutTempAndReal(s, tmp, real) == SelectSeq(s, LAMBDA x : x.id # tmp /\ x.id # real)

\* the entity the server answers a create with (sort_order is the server's
\* MAX(sort_order) + 1 of rows that were inserted one after the other)
CreatedTask(m) == Task(m.sid, m.v.listId, m.sid - 1, 1, <<>>)
CreatedList(m) == List(m.sid, 1)
CreatedSubtask(m) == Subtask(m.sid, m.v.id, 1)

\* onSuccess
OnSuccess(m, t, l) ==
    CASE m.kind = "createTask" ->
           Caches(IF t.loaded /\ m.tempId # 0
                     THEN Loaded(Append(WithoutTempAndReal(t.data, m.tempId, m.sid),
                                        CreatedTask(m)))
                     ELSE t, l)
      [] m.kind = "createList" ->
           Caches(t, IF l.loaded /\ m.tempId # 0
                        THEN Loaded(Append(WithoutTempAndReal(l.data, m.tempId, m.sid),
                                           CreatedList(m)))
                        ELSE l)
      [] m.kind = "deleteList" ->
           Caches(IF t.loaded
                     THEN Loaded(WithoutList(t.data, m.v.id)) ELSE t,
                  IF l.loaded THEN Loaded(WithoutId(l.data, m.v.id)) ELSE l)
      [] OTHER -> Caches(t, l)

\* (mutant) onError leaves the cache as it finds it
Restore_Nothing(prev, cur) == cur

\* if (context?.previousTasks) setQueryData(['tasks'], context.previousTasks)
Restore(prev, cur) == IF prev.loaded THEN prev ELSE cur

\* onError: the hooks that have one restore context.previous* when it is set
OnError(m, t, l) ==
    CASE m.kind \in {"createTask", "updateTask", "deleteTask", "createSubtask"} ->
           Caches(Restore(m.prevT, t), l)
      [] m.kind \in {"createList", "updateList"} ->
           Caches(t, Restore(m.prevL, l))
      [] m.kind = "deleteList" ->
           Caches(Restore(m.prevT, t), Restore(m.prevL, l))
      [] OTHER -> Caches(t, l)

\* onSettled: which queries invalidateQueries is called for
InvalidatesTasks(k) ==
    k \in {"updateTask", "deleteTask", "reorderTasks", "createSubtask",
           "updateSubtask", "deleteSubtask", "deleteList"}
InvalidatesLists(k) == k \in {"updateList", "deleteList"}

\* the envelope the request handler broadcasts after its write; the payload of
\* task_updated / subtask_updated is the server's row, which is not tracked
\* here: those envelopes are among the ones of EnvArrives
EchoOf(m) ==
    CASE m.kind = "createTask" -> TaskEnv("task_created", CreatedTask(m))
      [] m.kind = "deleteTask" -> IdEnv("task_deleted", m.v.id)
      [] m.kind = "reorderTasks" -> IdsEnv("tasks_reordered", m.v.ids)
      [] m.kind = "createSubtask" -> SubEnv("subtask_created", CreatedSubtask(m))
      [] m.kind = "deleteSubtask" -> IdEnv("subtask_deleted", m.v.id)
      [] m.kind = "createList" -> ListEnv("list_created", CreatedList(m))
      [] m.kind = "updateList" -> ListEnv("list_updated", List(m.v.id, 1))
      [] m.kind = "deleteList" -> IdEnv("list_deleted", m.v.id)
      [] OTHER -> NoEnv

HasEcho(k) == k \notin {"updateTask", "updateSubtask"}

\* envelopes caused by the user's other sessions
OtherSessionEnvelopes ==
    {TaskEnv("task_updated", [ServerTasks[1] EXCEPT !.text = 2]),
     SubEnv("subtask_updated", Subtask(1, 1, 2)),
     IdEnv("list_deleted", 1)}
    \cup {IdsEnv("tasks_reordered", ids) : ids \in {<<2>>, <<3>>, <<2, 1>>, <<3, 1>>}}

\* the caches as fetched or not yet fetched, and n mutations to come
InitCacheOf(n) ==
    /\ tasksQ \in {Undefined, Loaded(ServerTasks)}
    /\ listsQ \in {Undefined, Loaded(ServerLists)}
    /\ tasksStale = FALSE
    /\ listsStale = FALSE
    /\ muts = [m \in 1..n |-> NoMut]
    /\ now = TempBase
    /\ srvIds = [task |-> 3, list |-> 2, sub |-> 2]
    /\ wsQueue = <<>>
    /\ envCount = 0

InitCache == InitCacheOf(MaxMut)

FreeSlot(m) == muts[m].kind = "none" /\ \A x \in 1..(m - 1) : muts[x].kind # "none"

\* Date.now() of a create: the value an earlier create read, or a later one
ClockTicks(k) ==
    IF k \in CreateKinds /\ \E x \in Mut : muts[x].tempId = now THEN {0, 1} ELSE {0}

\* mutate(): onMutate runs and the request is sent
Mutate(m, k, v, tick) ==
    /\ UNCHANGED nonCacheVars
    /\ FreeSlot(m)
    /\ tick \in ClockTicks(k)
    /\ v \in Variables(k)
    /\ now' = IF k \in CreateKinds THEN now + tick ELSE now
    /\ LET c == OnMutate(k, v, tasksQ, listsQ, now')
       IN  tasksQ' = c.tasks /\ listsQ' = c.lists
    /\ muts' = [muts EXCEPT ![m] =
                  [kind |-> k, v |-> v,
                   prevT |-> IF k \in TaskKinds \cup {"deleteList"} THEN tasksQ ELSE Undefined,
                   prevL |-> IF k \in ListKinds THEN listsQ ELSE Undefined,
                   tempId |-> IF k \in CreateKinds THEN now' ELSE 0,
                   phase |-> "sent", sid |-> 0, echo |-> "none"]]
    /\ UNCHANGED <<tasksStale, listsStale, srvIds, wsQueue, envCount>>

\* the ids a request names exist on the server only if the server issued them
KnownToServer(m) ==
    m.kind \in {"createTask", "createList", "reorderTasks"} \/ m.v.id < TempBase

\* server: the handler's write succeeds and it broadcasts the envelope
ServerCommit(m) ==
    /\ UNCHANGED nonCacheVars
    /\ muts[m].phase = "sent"
    /\ KnownToServer(muts[m])
    /\ LET k == muts[m].kind
           sid == CASE k = "createTask" -> srvIds.task
                    [] k = "createList" -> srvIds.list
                    [] k = "createSubtask" -> srvIds.sub
                    [] OTHER -> 0
       IN /\ muts' = [muts EXCEPT ![m].phase = "committed", ![m].sid = sid,
                                  ![m].echo = IF HasEcho(k) THEN "inflight" ELSE "none"]
          /\ srvIds' = [task |-> srvIds.task + (IF k = "createTask" THEN 1 ELSE 0),
                        list |-> srvIds.list + (IF k = "createList" THEN 1 ELSE 0),
                        sub |-> srvIds.sub + (IF k = "createSubtask" THEN 1 ELSE 0)]
          /\ wsQueue' = IF HasEcho(k) THEN Append(wsQueue, m) ELSE wsQueue
    /\ UNCHANGED <<tasksQ, listsQ, tasksStale, listsStale, now, envCount>>

\* the request resolves: onSuccess, then onSettled
MutSuccess(m) ==
    /\ UNCHANGED nonCacheVars
    /\ muts[m].phase = "committed"
    /\ LET c == OnSuccess(muts[m], tasksQ, listsQ)
       IN  tasksQ' = c.tasks /\ listsQ' = c.lists
    /\ tasksStale' = (tasksStale \/ InvalidatesTasks(muts[m].kind))
    /\ listsStale' = (listsStale \/ InvalidatesLists(muts[m].kind))
    /\ muts' = [muts EXCEPT ![m].phase = "succeeded", ![m].prevT = Undefined,
                            ![m].prevL = Undefined]
    /\ UNCHANGED <<now, srvIds, wsQueue, envCount>>

\* the request rejects (the server refuses it, or it never gets there):
\* onError, then onSettled
MutError(m) ==
    /\ UNCHANGED nonCacheVars
    /\ muts[m].phase = "sent"
    /\ LET c == OnError(muts[m], tasksQ, listsQ)
       IN  tasksQ' = c.tasks /\ listsQ' = c.lists
    /\ tasksStale' = (tasksStale \/ InvalidatesTasks(muts[m].kind))
    /\ listsStale' = (listsStale \/ InvalidatesLists(muts[m].kind))
    /\ muts' = [muts EXCEPT ![m].phase = "failed", ![m].prevT = Undefined,
                            ![m].prevL = Undefined]
    /\ UNCHANGED <<now, srvIds, wsQueue, envCount>>

\* ws.onmessage for the envelope of an own mutation
EchoArrives(m) ==
    /\ UNCHANGED nonCacheVars
    /\ wsQueue # <<>> /\ Head(wsQueue) = m
    /\ LET c == HandleWebSocketEvent(tasksQ, listsQ, EchoOf(muts[m]))
       IN  tasksQ' = c.tasks /\ listsQ' = c.lists
    /\ muts' = [muts EXCEPT ![m].echo = "applied"]
    /\ wsQueue' = Tail(wsQueue)
    /\ UNCHANGED <<tasksStale, listsStale, now, srvIds, envCount>>

\* ws.onmessage for an envelope caused by another session
EnvArrives(e) ==
    /\ UNCHANGED nonCacheVars
    /\ envCount < MaxEnv
    /\ e \in OtherSessionEnvelopes
    /\ LET c == HandleWebSocketEvent(tasksQ, listsQ, e)
       IN  tasksQ' = c.tasks /\ listsQ' = c.lists
    /\ envCount' = envCount + 1
    /\ UNCHANGED <<tasksStale, listsStale, muts, now, srvIds, wsQueue>>

MutKinds == TaskKinds \cup ListKinds

\* ------------------------------------------------------------------------
\* The create hooks alone (useCreateTask, useCreateSubtask, useCreateList)
\* ------------------------------------------------------------------------
\* number of creates
NumCreate == 2

NextCreates ==
    \/ \E m \in {x \in Mut : FreeSlot(x)}, k \in CreateKinds :
          \E v \in Variables(k), tick \in ClockTicks(k) : Mutate(m, k, v, tick)
    \/ \E m \in Mut : ServerCommit(m)
    \/ \E m \in Mut : MutSuccess(m)
    \/ \E m \in Mut : MutError(m)
    \/ \E m \in Mut : EchoArrives(m)

\* ------------------------------------------------------------------------
\* Edits of tasks that are in flight together (useUpdateTask, useDeleteTask)
\* ------------------------------------------------------------------------
\* number of edits the user starts
NumEdit == 2

EditKinds == {"updateTask", "deleteTask"}

\* both collections are fetched
InitFetched ==
    /\ InitCacheOf(NumEdit)
    /\ tasksQ = Loaded(ServerTasks)
    /\ listsQ = Loaded(ServerLists)

NextEdits ==
    \/ \E m \in {x \in Mut : FreeSlot(x)}, k \in EditKinds :
          \E v \in Variables(k), tick \in ClockTicks(k) : Mutate(m, k, v, tick)
    \/ \E m \in Mut : ServerCommit(m)
    \/ \E m \in Mut : MutSuccess(m)
    \/ \E m \in Mut : MutError(m)
    \/ \E m \in Mut : EchoArrives(m)
    \/ \E e \in OtherSessionEnvelopes : EnvArrives(e)

\* ------------------------------------------------------------------------
\* The reconciler alone: any envelope on any cache
\* ------------------------------------------------------------------------
\* number of envelopes delivered
MaxDeliver == 2

\* the entries a cache is made of
SomeTasks == {ServerTasks[1], ServerTasks[2], Task(2, 1, 0, 1, <<Subtask(2, 2, 1)>>)}
SomeLists == {List(1, 0), List(2, 1)}

\* sequences of at most two entries with different ids
UpToTwo(S) ==
    {<<>>} \cup {<<x>> : x \in S}
           \cup {p \in {<<x, y>> : x \in S, y \in S} : p[1].id # p[2].id}

\* the ten kinds of envelope, for ids the cache has and ids it has not
AnyEnvelope ==
    {TaskEnv(type, Task(id, 0, 0, 2, <<>>)) :
        type \in {"task_created", "task_updated"}, id \in 1..3}
    \cup {SubEnv(type, Subtask(id, taskId, 2)) :
        type \in {"subtask_created", "subtask_updated"}, id \in 1..2, taskId \in 1..2}
    \cup {ListEnv(type, List(id, 2)) :
        type \in {"list_created", "list_updated"}, id \in 1..3}
    \cup {IdEnv(type, id) :
        type \in {"task_deleted", "subtask_deleted", "list_deleted"}, id \in 1..3}
    \cup {IdsEnv("tasks_reordered", ids) :
        ids \in {<<>>, <<2>>, <<2, 1>>, <<3, 1>>, <<1, 1>>}}

InitAnyCache ==
    /\ tasksQ \in {Undefined} \cup {Loaded(d) : d \in UpToTwo(SomeTasks)}
    /\ listsQ \in {Undefined} \cup {Loaded(d) : d \in UpToTwo(SomeLists)}
    /\ tasksStale = FALSE
    /\ listsStale = FALSE
    /\ muts = [m \in 1..MaxMut |-> NoMut]
    /\ now = TempBase
    /\ srvIds = [task |-> 3, list |-> 2, sub |-> 2]
    /\ wsQueue = <<>>
    /\ envCount = 0

\* ws.onmessage: JSON.parse and handleWebSocketEvent
Deliver(e) ==
    /\ UNCHANGED nonCacheVars
    /\ envCount < MaxDeliver
    /\ LET c == HandleWebSocketEvent(tasksQ, listsQ, e)
       IN  tasksQ' = c.tasks /\ listsQ' = c.lists
    /\ envCount' = envCount + 1
    /\ UNCHANGED <<tasksStale, listsStale, muts, now, srvIds, wsQueue>>

NextDeliver == \E e \in AnyEnvelope : Deliver(e)

NextCache ==
    \/ \E m \in {x \in Mut : FreeSlot(x)}, k \in MutKinds :
          \E v \in Variables(k), tick \in ClockTicks(k) : Mutate(m, k, v, tick)
    \/ \E m \in Mut : ServerCommit(m)
    \/ \E m \in Mut : MutSuccess(m)
    \/ \E m \in Mut : MutError(m)
    \/ \E m \in Mut : EchoArrives(m)
    \/ \E e \in OtherSessionEnvelopes : EnvArrives(e)

\* ========================================================================
\* PART 3 - the WebSocket hub (Hub.Run, BroadcastToUser, the pumps)
\* ========================================================================
\* number of connections that are ever opened
NumConn == 3
\* capacity of Client.send (256 in the source)
SendCap == 1
\* capacity of Hub.broadcast (256 in the source)
BroadcastCap == 1
\* number of envelopes the handlers publish
MaxMsg == 3

Conn == 1..NumConn
User == {1, 2}

\* the user validateToken returns for the connection: the last connection
\* belongs to user 2, the others to user 1
UserOf(c) == IF c = NumConn THEN 2 ELSE 1

NoMsg == [user |-> 0, id |-> 0]

\* h.clients[u], nil when the key is absent
ClientsOf(u) == IF u \in DOMAIN clients THEN clients[u] ELSE {}

InitHub ==
    /\ clients = << >>
    /\ broadcast = <<>>
    /\ hub = [pc |-> "select", msg |-> NoMsg, todo |-> {}]
    /\ cst = [c \in Conn |-> "new"]
    /\ send = [c \in Conn |-> <<>>]
    /\ closed = [c \in Conn |-> FALSE]
    /\ enq = [c \in Conn |-> 0]
    /\ nextMsg = 1
    /\ hnd = {}

\* Run, case client := <-h.register
RegisterCase(c) ==
    clients' = [u \in DOMAIN clients \cup {UserOf(c)} |->
                  IF u = UserOf(c) THEN ClientsOf(u) \cup {c} ELSE clients[u]]

\* (mutant) the unregister case does not look the connection up
Present_Always(c) == TRUE

\* if clients, ok := h.clients[client.userID]; ok { if _, ok := clients[client]; ok
Present(c) == c \in ClientsOf(UserOf(c))

\* (mutant) the connection is taken out of the registry, its queue stays open
UnregisterCase_NoClose(c) ==
    LET u == UserOf(c)
    IN  /\ clients' = IF ~Present(c) THEN clients
                      ELSE IF ClientsOf(u) = {c}
                              THEN [x \in DOMAIN clients \ {u} |-> clients[x]]
                              ELSE [clients EXCEPT ![u] = @ \ {c}]
        /\ closed' = closed

\* Run, case client := <-h.unregister
UnregisterCase(c) ==
    LET u == UserOf(c)
    IN  /\ clients' = IF ~Present(c) THEN clients
                      ELSE IF ClientsOf(u) = {c}
                              THEN [x \in DOMAIN clients \ {u} |-> clients[x]]
                              ELSE [clients EXCEPT ![u] = @ \ {c}]
        /\ closed' = IF Present(c) THEN [closed EXCEPT ![c] = TRUE] ELSE closed

\* handleWebSocket hands the new Client over h.register (unbuffered: the
\* handler waits until Run receives it) and starts the pumps. The
\* connections of a user are numbered in the order they are opened.
HubRegister(c) ==
    /\ UNCHANGED nonHubVars
    /\ hub.pc = "select"
    /\ cst[c] = "new"
    /\ \A x \in 1..(c - 1) : UserOf(x) = UserOf(c) => cst[x] # "new"
    /\ RegisterCase(c)
    /\ cst' = [cst EXCEPT ![c] = "open"]
    /\ UNCHANGED <<broadcast, hub, send, closed, enq, nextMsg, hnd>>

\* readPump: ReadMessage fails (the peer went away, or writePump closed the
\* connection) and the deferred function hands the Client over h.unregister
\* (unbuffered); Run, case client := <-h.unregister
HubUnregister(c) ==
    /\ UNCHANGED nonHubVars
    /\ hub.pc = "select"
    /\ cst[c] = "open"
    /\ UnregisterCase(c)
    /\ cst' = [cst EXCEPT ![c] = "gone"]
    /\ UNCHANGED <<broadcast, hub, send, enq, nextMsg, hnd>>

\* BroadcastToUser: a handler puts the marshalled envelope on h.broadcast
\* (it blocks while the channel is full)
BroadcastToUser(u) ==
    /\ UNCHANGED nonHubVars
    /\ nextMsg <= MaxMsg
    /\ Len(broadcast) < BroadcastCap
    /\ broadcast' = Append(broadcast, [user |-> u, id |-> nextMsg])
    /\ nextMsg' = nextMsg + 1
    /\ UNCHANGED <<clients, hub, cst, send, closed, enq, hnd>>

\* (mutant) the envelope goes to the connections of every user
Recipients_Everyone(msg) == UNION {clients[u] : u \in DOMAIN clients}

\* clients := h.clients[msg.userID]
Recipients(msg) == ClientsOf(msg.user)

\* Run, case msg := <-h.broadcast: the set to range over is read
HubTake ==
    /\ UNCHANGED nonHubVars
    /\ hub.pc = "select"
    /\ broadcast # <<>>
    /\ LET msg == Head(broadcast)
           todo == Recipients(msg)
       IN  hub' = IF todo = {} THEN [pc |-> "select", msg |-> NoMsg, todo |-> {}]
                  ELSE [pc |-> "loop", msg |-> msg, todo |-> todo]
    /\ broadcast' = Tail(broadcast)
    /\ UNCHANGED <<clients, cst, send, closed, enq, nextMsg, hnd>>

\* (mutant) the connection with the full queue stays registered
Evict_Keep(cl, u, c) == cl

\* delete(h.clients[msg.userID], client)
Evict(cl, u, c) == [cl EXCEPT ![u] = @ \ {c}]

\* (mutant) a plain send: the iteration waits until the queue has room
SelectProceeds_NoDefault(c) == Len(send[c]) < SendCap

\* select { case client.send <- msg.message: default: ... }: with a default
\* case the select goes on at once, whatever the queue holds
SelectProceeds(c) == TRUE

\* one iteration of the range loop: the non-blocking send, or the eviction
HubDeliver(c) ==
    /\ UNCHANGED nonHubVars
    /\ hub.pc = "loop"
    /\ c \in hub.todo
    /\ SelectProceeds(c)
    /\ IF Len(send[c]) < SendCap
          THEN /\ send' = [send EXCEPT ![c] = Append(@, hub.msg.id)]
               /\ enq' = [enq EXCEPT ![c] = hub.msg.id]
               /\ UNCHANGED <<clients, closed>>
          ELSE /\ clients' = Evict(clients, hub.msg.user, c)
               /\ closed' = [closed EXCEPT ![c] = TRUE]
               /\ UNCHANGED <<send, enq>>
    /\ hub' = IF hub.todo = {c} THEN [pc |-> "select", msg |-> NoMsg, todo |-> {}]
              ELSE [hub EXCEPT !.todo = @ \ {c}]
    /\ UNCHANGED <<broadcast, cst, nextMsg, hnd>>

\* writePump: one frame takes the message received and all that are queued
WritePump(c) ==
    /\ UNCHANGED nonHubVars
    /\ cst[c] = "open"
    /\ send[c] # <<>>
    /\ send' = [send EXCEPT ![c] = <<>>]
    /\ UNCHANGED <<clients, broadcast, hub, cst, closed, enq, nextMsg, hnd>>

NextHub ==
    \/ \E c \in Conn : HubRegister(c)
    \/ \E c \in Conn : HubUnregister(c)
    \/ \E u \in User : BroadcastToUser(u)
    \/ HubTake
    \/ \E c \in Conn : HubDeliver(c)
    \/ \E c \in Conn : WritePump(c)

\* ------------------------------------------------------------------------
\* The mutation handlers (handleCreateTask ... handleDeleteList) in front of
\* the hub
\* ------------------------------------------------------------------------
\* number of mutation requests handled at the same time
NumHandler == 2

\* the mutation routes (two of them: the others follow the same pattern)
Routes == {"handleCreateTask", "handleReorderTasks"}

\* (mutant) every handler announces an update
EnvelopeType_Updated(route) == "task_updated"

\* WebSocketEvent.Type the route passes to BroadcastToUser
EnvelopeType(route) ==
    IF route = "handleCreateTask" THEN "task_created" ELSE "tasks_reordered"

\* a running handler: its route, the authenticated user, the number of its
\* committed write (0: none) and where it is
Running(route, u, id, pc) == [route |-> route, user |-> u, id |-> id, pc |-> pc]

\* the first connection of user 1 is registered, user 2 is not connected
InitConnected ==
    /\ clients = [u \in User |-> IF u = 1 THEN {1} ELSE {}]
    /\ broadcast = <<>>
    /\ hub = [pc |-> "select", msg |-> NoMsg, todo |-> {}]
    /\ cst = [c \in Conn |-> IF c = 1 THEN "open" ELSE "new"]
    /\ send = [c \in Conn |-> <<>>]
    /\ closed = [c \in Conn |-> FALSE]
    /\ enq = [c \in Conn |-> 0]
    /\ nextMsg = 1
    /\ hnd = {}

\* a mutation handler, up to the return of its persistence call: requireAuth
\* gave user u, the body decoded and the write committed
HandlerCommit(route, u) ==
    /\ UNCHANGED nonHubVars
    /\ Cardinality(hnd) < NumHandler
    /\ nextMsg <= MaxMsg
    /\ hnd' = hnd \cup {Running(route, u, nextMsg, "committed")}
    /\ nextMsg' = nextMsg + 1
    /\ UNCHANGED <<clients, broadcast, hub, cst, send, closed, enq>>

\* a mutation handler whose validation or persistence call fails
HandlerFail(route, u) ==
    /\ UNCHANGED nonHubVars
    /\ Cardinality(hnd) < NumHandler
    /\ hnd' = hnd \cup {Running(route, u, 0, "failed")}
    /\ UNCHANGED <<clients, broadcast, hub, cst, send, closed, enq, nextMsg>>

\* the handler calls BroadcastToUser: the marshalled envelope is put on
\* h.broadcast (the call blocks while the channel is full)
HandlerBroadcast(h) ==
    /\ UNCHANGED nonHubVars
    /\ h \in hnd
    /\ h.pc = "committed"
    /\ Len(broadcast) < BroadcastCap
    /\ broadcast' = Append(broadcast, [user |-> h.user, id |-> h.id,
                                       type |-> EnvelopeType(h.route)])
    /\ hnd' = (hnd \ {h}) \cup {[h EXCEPT !.pc = "published"]}
    /\ UNCHANGED <<clients, hub, cst, send, closed, enq, nextMsg>>

\* jsonResponse / errorResponse: the handler writes its response and returns
HandlerRespond(h) ==
    /\ UNCHANGED nonHubVars
    /\ h \in hnd
    /\ h.pc \in {"published", "failed"}
    /\ hnd' = hnd \ {h}
    /\ UNCHANGED <<clients, broadcast, hub, cst, send, closed, enq, nextMsg>>

NextHandlers ==
    \/ \E route \in Routes, u \in User : HandlerCommit(route, u)
    \/ \E route \in Routes, u \in User : HandlerFail(route, u)
    \/ \E h \in hnd : HandlerBroadcast(h)
    \/ \E h \in hnd : HandlerRespond(h)
    \/ HubTake
    \/ \E c \in Conn : HubDeliver(c)
    \/ \E c \in Conn : WritePump(c)

\* ========================================================================
\* PART 4 - sessions on the server (requireAuth, handleRefresh, handleLogout)
\* ========================================================================
\* number of requests to the two endpoints
NumCall == 2
\* number of credential pairs the server issues
MaxPair == 3

Call == 1..NumCall

\* the k-th pair generateAuthResponse issued: a signed JWT and a random
\* refresh token, two different strings
Jwt(k) == <<"jwt", k>>
Rt(k) == <<"rt", k>>
\* no Authorization header / no body
Absent == <<"", 0>>

\* hashToken: sha256 of the string, hex encoded
hashToken(t) == <<"sha256", t>>

\* INSERT INTO sessions (user_id, token_hash, expires_at)
CreateSession(rows, t) == rows \cup {hashToken(t)}
\* SELECT ... WHERE token_hash = ? (a row is found)
GetSessionByToken(rows, t) == hashToken(t) \in rows
\* DELETE FROM sessions WHERE token_hash = ?
DeleteSession(rows, t) == rows \ {hashToken(t)}

IdleCall == [route |-> "none", hdr |-> Absent, body |-> Absent,
             pc |-> "idle", res |-> 0, pair |-> 0]

\* after one login: pair 1 is out, its session row exists
InitSess ==
    /\ db = {hashToken(Rt(1))}
    /\ jwtLive = {Jwt(1)}
    /\ issued = 1
    /\ calls = [i \in Call |-> IdleCall]

Pairs == 1..issued

\* the interceptor's refresh call: bare axios.post with { refreshToken } as
\* body; no request interceptor runs, so there is no Authorization header
ClientRefresh(i, k) ==
    /\ UNCHANGED nonSessVars
    /\ calls[i].pc = "idle"
    /\ calls' = [calls EXCEPT ![i] = [IdleCall EXCEPT !.route = "refresh",
                     !.body = Rt(k), !.pc = "sent"]]
    /\ UNCHANGED <<db, jwtLive, issued>>

\* auth.refresh / any caller that does send a bearer token with the body
BearerRefresh(i, j, k) ==
    /\ UNCHANGED nonSessVars
    /\ calls[i].pc = "idle"
    /\ calls' = [calls EXCEPT ![i] = [IdleCall EXCEPT !.route = "refresh",
                     !.hdr = Jwt(j), !.body = Rt(k), !.pc = "sent"]]
    /\ UNCHANGED <<db, jwtLive, issued>>

\* auth.logout: api.post('/api/auth/logout'), the request interceptor adds
\* the stored access token
ClientLogout(i, j) ==
    /\ UNCHANGED nonSessVars
    /\ calls[i].pc = "idle"
    /\ calls' = [calls EXCEPT ![i] = [IdleCall EXCEPT !.route = "logout",
                     !.hdr = Jwt(j), !.pc = "sent"]]
    /\ UNCHANGED <<db, jwtLive, issued>>

\* accessTokenExpiry passes for the access token of pair k
ExpireAccess(k) ==
    /\ UNCHANGED nonSessVars
    /\ Jwt(k) \in jwtLive
    /\ jwtLive' = jwtLive \ {Jwt(k)}
    /\ UNCHANGED <<db, issued, calls>>

\* requireAuth: a bearer token is present, parses and has not expired
Authorized(hdr, live) == hdr # Absent /\ hdr \in live

\* both routes are registered behind requireAuth
RequireAuth(i) ==
    /\ UNCHANGED nonSessVars
    /\ calls[i].pc = "sent"
    /\ calls' = [calls EXCEPT ![i] =
                    IF Authorized(calls[i].hdr, jwtLive)
                    THEN [@ EXCEPT !.pc = "next"]
                    ELSE [@ EXCEPT !.pc = "done", !.res = 401]]
    /\ UNCHANGED <<db, jwtLive, issued>>

\* handleLogout: DeleteSession(getAuthToken(r)), errors ignored, 200
HandleLogout(i) ==
    /\ UNCHANGED nonSessVars
    /\ calls[i].pc = "next"
    /\ calls[i].route = "logout"
    /\ db' = IF calls[i].hdr # Absent THEN DeleteSession(db, calls[i].hdr) ELSE db
    /\ calls' = [calls EXCEPT ![i].pc = "done", ![i].res = 200]
    /\ UNCHANGED <<jwtLive, issued>>

\* handleRefresh up to the session lookup: 401 when no row is found
RefreshLookup(i) ==
    /\ UNCHANGED nonSessVars
    /\ calls[i].pc = "next"
    /\ calls[i].route = "refresh"
    /\ calls' = [calls EXCEPT ![i] =
                    IF GetSessionByToken(db, calls[i].body)
                    THEN [@ EXCEPT !.pc = "found"]
                    ELSE [@ EXCEPT !.pc = "done", !.res = 401]]
    /\ UNCHANGED <<db, jwtLive, issued>>

\* the rest of handleRefresh: DeleteSession of the presented token (its
\* result ignored), generateAuthResponse (new JWT, new refresh token,
\* CreateSession), 200 with the new pair
RefreshRotate(i) ==
    /\ UNCHANGED nonSessVars
    /\ calls[i].pc = "found"
    /\ issued < MaxPair
    /\ issued' = issued + 1
    /\ db' = CreateSession(DeleteSession(db, calls[i].body), Rt(issued'))
    /\ jwtLive' = jwtLive \cup {Jwt(issued')}
    /\ calls' = [calls EXCEPT ![i].pc = "done", ![i].res = 200,
                              ![i].pair = issued']

NextSess ==
    \/ \E i \in Call, k \in Pairs : ClientRefresh(i, k)
    \/ \E i \in Call, j, k \in Pairs : BearerRefresh(i, j, k)
    \/ \E i \in Call, j \in Pairs : ClientLogout(i, j)
    \/ \E k \in Pairs : ExpireAccess(k)
    \/ \E i \in Call : RequireAuth(i)
    \/ \E i \in Call : HandleLogout(i)
    \/ \E i \in Call : RefreshLookup(i)
    \/ \E i \in Call : RefreshRotate(i)

\* ========================================================================
\* PART 5 - the client transport (useWebSocket: connect, disconnect, the
\*          socket callbacks and the reconnect timer)
\* ========================================================================
\* number of WebSocket objects that exist at the same time
MaxSock == 2
\* number of timeouts that are pending at the same time
MaxTimer == 1

maxReconnectAttempts == 10
BaseDelay == 1000
MaxDelay == 30000

Sock == 1..MaxSock
Timer == 1..MaxTimer

RECURSIVE Pow2(_)
Pow2(n) == IF n = 0 THEN 1 ELSE 2 * Pow2(n - 1)
Min(a, b) == IF a < b THEN a ELSE b

\* (mutant) the delay doubles without a cap
Delay_Uncapped(n) == BaseDelay * Pow2(n)

\* Math.min(1000 * Math.pow(2, reconnectAttempts.current), 30000)
Delay(n) == Min(BaseDelay * Pow2(n), MaxDelay)

\* after the first render, before the effect has run
InitWs ==
    /\ lsToken \in BOOLEAN
    /\ sock = [s \in Sock |-> "none"]
    /\ wsRef = 0
    /\ isConnecting = FALSE
    /\ reconnectAttempts = 0
    /\ timers = [t \in Timer |-> 0]
    /\ reconnectTimeoutRef = 0

FreeSock == {s \in Sock : sock[s] = "none"}
FreeTimer == {t \in Timer : timers[t] = 0}
NewSock == CHOOSE s \in FreeSock : \A x \in FreeSock : s <= x
NewTimer == CHOOSE t \in FreeTimer : \A x \in FreeTimer : t <= x

\* connect() gets past its two early returns and creates a WebSocket
Creates(tok, ref, connecting, socks) ==
    /\ tok
    /\ ~(connecting \/ (ref # 0 /\ socks[ref] = "OPEN"))

\* connect(), given the refs and sockets a caller leaves behind
connect(tok, ref, connecting, socks) ==
    IF Creates(tok, ref, connecting, socks)
       THEN /\ FreeSock # {}
            /\ sock' = [socks EXCEPT ![NewSock] = "CONNECTING"]
            /\ wsRef' = NewSock
            /\ isConnecting' = TRUE
       ELSE /\ sock' = socks
            /\ wsRef' = ref
            /\ isConnecting' = connecting

\* disconnect(): the timeout the ref names is cleared, the socket the ref
\* names is closed
disconnect ==
    /\ timers' = [t \in Timer |-> IF t = reconnectTimeoutRef THEN 0 ELSE timers[t]]
    /\ reconnectTimeoutRef' = 0
    /\ sock' = [s \in Sock |-> IF s = wsRef /\ sock[s] \in {"CONNECTING", "OPEN"}
                                THEN "CLOSING" ELSE sock[s]]
    /\ wsRef' = 0
    /\ UNCHANGED <<isConnecting, reconnectAttempts>>

\* the effect on mount, the reconnect function the hook returns
Connect ==
    /\ UNCHANGED nonWsVars
    /\ connect(lsToken, wsRef, isConnecting, sock)
    /\ UNCHANGED <<lsToken, reconnectAttempts, timers, reconnectTimeoutRef>>

\* the disconnect function the hook returns
Disconnect ==
    /\ UNCHANGED nonWsVars
    /\ disconnect
    /\ UNCHANGED lsToken

\* handleStorageChange: another tab stored or removed 'token'
StorageEvent(newValue) ==
    /\ UNCHANGED nonWsVars
    /\ lsToken' = newValue
    /\ IF newValue
          THEN /\ connect(TRUE, wsRef, isConnecting, sock)
               /\ UNCHANGED <<reconnectAttempts, timers, reconnectTimeoutRef>>
          ELSE disconnect

\* this tab stores a token (login, refresh) or removes it (logout,
\* handleAuthFailure): no storage event is delivered to the tab itself
SetItem(newValue) ==
    /\ UNCHANGED nonWsVars
    /\ lsToken # newValue
    /\ lsToken' = newValue
    /\ UNCHANGED <<sock, wsRef, isConnecting, reconnectAttempts, timers,
                   reconnectTimeoutRef>>

\* ws.onopen
OnOpen(s) ==
    /\ UNCHANGED nonWsVars
    /\ sock[s] = "CONNECTING"
    /\ sock' = [sock EXCEPT ![s] = "OPEN"]
    /\ reconnectAttempts' = 0
    /\ isConnecting' = FALSE
    /\ UNCHANGED <<lsToken, wsRef, timers, reconnectTimeoutRef>>

\* the reconnect is scheduled
Schedules == reconnectAttempts < maxReconnectAttempts /\ lsToken

\* the close event of socket s (after the error event when the connection
\* failed: onerror clears isConnecting, which onclose does as well):
\* ws.onclose
OnClose(s) ==
    /\ UNCHANGED nonWsVars
    /\ sock[s] # "none"
    /\ sock' = [sock EXCEPT ![s] = "none"]
    /\ wsRef' = 0
    /\ isConnecting' = FALSE
    /\ IF Schedules
          THEN /\ FreeTimer # {}
               /\ timers' = [timers EXCEPT ![NewTimer] = Delay(reconnectAttempts)]
               /\ reconnectTimeoutRef' = NewTimer
          ELSE UNCHANGED <<timers, reconnectTimeoutRef>>
    /\ UNCHANGED <<lsToken, reconnectAttempts>>

\* the timeout fires: reconnectAttempts.current++; connect()
TimerFires(t) ==
    /\ UNCHANGED nonWsVars
    /\ timers[t] # 0
    /\ timers' = [timers EXCEPT ![t] = 0]
    /\ reconnectAttempts' = reconnectAttempts + 1
    /\ connect(lsToken, wsRef, isConnecting, sock)
    /\ UNCHANGED <<lsToken, reconnectTimeoutRef>>

NextWs ==
    \/ Connect
    \/ Disconnect
    \/ \E newValue \in BOOLEAN : StorageEvent(newValue)
    \/ \E newValue \in BOOLEAN : SetItem(newValue)
    \/ \E s \in Sock : OnOpen(s)
    \/ \E s \in Sock : OnClose(s)
    \/ \E t \in Timer : TimerFires(t)

\* ========================================================================
\* PART 6 - frames: json.Marshal, writePump's coalescing, ws.onmessage
\* ========================================================================
\* number of envelopes published on the connection
MaxEnq == 3
\* a peer goes on sending frames until this many envelopes were handed over
MaxHanded == 2

\* texts are sequences of characters; LF is the line feed
LF == "LF"

\* the payload texts of the envelopes: one of them holds a line feed
Payloads == {<<"a">>, <<"b">>, <<"a", LF>>}

RECURSIVE Escape(_)
\* json.Marshal of a string: a line feed becomes the two characters \ n
Escape(t) ==
    IF t = <<>> THEN <<>>
    ELSE (IF Head(t) = LF THEN <<"\\", "n">> ELSE <<Head(t)>>) \o Escape(Tail(t))

\* (mutant) the payload is written as it is
Marshal_Raw(e) == <<"{">> \o e \o <<"}">>

\* json.Marshal(event): one JSON object without line feeds
Marshal(e) == <<"{">> \o Escape(e) \o <<"}">>

RECURSIVE Unescape(_)
Unescape(t) ==
    IF t = <<>> THEN <<>>
    ELSE IF Head(t) = "\\" /\ Len(t) >= 2 /\ t[2] = "n"
            THEN <<LF>> \o Unescape(Tail(Tail(t)))
            ELSE <<Head(t)>> \o Unescape(Tail(t))

\* JSON.parse(message) returns: the text is one object, with no raw line
\* feed and no dangling escape in it
Parses(m) ==
    /\ Len(m) >= 2 /\ m[1] = "{" /\ m[Len(m)] = "}"
    /\ \A i \in 2..(Len(m) - 1) :
          /\ m[i] \notin {LF, "{", "}"}
          /\ m[i] = "\\" => (i + 1 <= Len(m) - 1 /\ m[i + 1] = "n")
JSONparse(m) == Unescape(SubSeq(m, 2, Len(m) - 1))

RECURSIVE Join(_)
\* writePump: the first message, then '\n' and a message for each queued one
Join(ms) ==
    IF ms = <<>> THEN <<>>
    ELSE IF Len(ms) = 1 THEN ms[1]
    ELSE ms[1] \o <<LF>> \o Join(Tail(ms))

RECURSIVE Split(_)
\* event.data.split('\n')
Split(t) ==
    IF \A i \in 1..Len(t) : t[i] # LF THEN <<t>>
    ELSE LET k == CHOOSE i \in 1..Len(t) : t[i] = LF /\ \A j \in 1..(i - 1) : t[j] # LF
         IN  <<SubSeq(t, 1, k - 1)>> \o Split(SubSeq(t, k + 1, Len(t)))

\* .filter(msg => msg.trim())
NonBlank(ms) == SelectSeq(ms, LAMBDA m : m # <<>>)

RECURSIVE Handled(_)
\* the for loop inside try: the first message JSON.parse throws on ends it
Handled(ms) ==
    IF ms = <<>> THEN <<>>
    ELSE IF ~Parses(Head(ms)) THEN <<>>
    ELSE <<JSONparse(Head(ms))>> \o Handled(Tail(ms))

\* ws.onmessage for one frame: the envelopes handleWebSocketEvent gets
OnMessageOf(data) == Handled(NonBlank(Split(data)))

InitPipe == pipe = [send |-> <<>>, wire |-> <<>>, handed |-> <<>>, enqueued |-> <<>>]

\* BroadcastToUser and the hub: the marshalled envelope is put on Client.send
Enqueue(e) ==
    /\ UNCHANGED nonPipeVars
    /\ Len(pipe.enqueued) < MaxEnq
    /\ pipe' = [pipe EXCEPT !.send = Append(@, Marshal(e)),
                            !.enqueued = Append(@, e)]

\* writePump: one text frame with the message received and all queued ones
PumpFrame ==
    /\ UNCHANGED nonPipeVars
    /\ pipe.send # <<>>
    /\ pipe' = [pipe EXCEPT !.send = <<>>, !.wire = Append(@, Join(pipe.send))]

\* ws.onmessage
OnMessage ==
    /\ UNCHANGED nonPipeVars
    /\ pipe.wire # <<>>
    /\ pipe' = [pipe EXCEPT !.wire = Tail(@),
                            !.handed = @ \o OnMessageOf(Head(pipe.wire))]

NextPipe ==
    \/ \E e \in Payloads : Enqueue(e)
    \/ PumpFrame
    \/ OnMessage

\* what a peer can put in a frame: envelopes as the server marshals them, a
\* truncated object, an empty line
PeerMessages == {Marshal(e) : e \in Payloads} \cup {<<"{", "a">>, <<>>}
PeerFrames ==
    {Join(ms) : ms \in {<<x>> : x \in PeerMessages}
                       \cup {<<x, y>> : x \in PeerMessages, y \in PeerMessages}
                       \cup {<<x, y, z>> : x \in PeerMessages, y \in PeerMessages,
                                           z \in PeerMessages}}

\* a frame arrives from whatever is at the other end
PeerFrame(f) ==
    /\ UNCHANGED nonPipeVars
    /\ Len(pipe.handed) < MaxHanded
    /\ pipe.wire = <<>>
    /\ pipe' = [pipe EXCEPT !.wire = <<f>>]

NextFrames ==
    \/ \E f \in PeerFrames : PeerFrame(f)
    \/ OnMessage

\* ========================================================================
\* PART 7 - the life of a connection: handleWebSocket, the hand-over to the
\*          hub, readPump's end
\* ========================================================================
\* the token query parameter: absent, or a JWT with its signature, its expiry
\* and its sub claim (0: no numeric sub claim)
NoToken == [present |-> FALSE, signed |-> FALSE, expired |-> FALSE, sub |-> 0]
Tokens ==
    {NoToken} \cup
    {[present |-> TRUE, signed |-> sg, expired |-> ex, sub |-> u] :
        sg \in BOOLEAN, ex \in BOOLEAN, u \in User \cup {0}}

\* (mutant) the expiry is not looked at
parseJWT_NoExpiry(t) ==
    IF ~t.signed THEN [userID |-> 0, err |-> TRUE]
    ELSE IF t.sub \notin User THEN [userID |-> 0, err |-> TRUE]
    ELSE [userID |-> t.sub, err |-> FALSE]

\* parseJWT: jwt.Parse fails or !token.Valid; no numeric sub claim; the id
parseJWT(t) ==
    IF ~t.signed \/ t.expired THEN [userID |-> 0, err |-> TRUE]
    ELSE IF t.sub \notin User THEN [userID |-> 0, err |-> TRUE]
    ELSE [userID |-> t.sub, err |-> FALSE]

validateToken(t) == parseJWT(t)

\* &Client{userID: userID, send: make(chan []byte, 256)}: the next
\* connection of that user
NewClient(userID) ==
    {c \in Conn : /\ cst[c] = "new" /\ UserOf(c) = userID
                  /\ \A x \in 1..(c - 1) : UserOf(x) = userID => cst[x] # "new"}

\* handleWebSocket up to h.hub.register <- client: 401 for a missing or an
\* invalid token, else the Client is made and the handler is at the send
HandleWebSocket(c, t) ==
    /\ UNCHANGED nonHubVars
    /\ cst[c] = "new"
    /\ IF ~t.present \/ validateToken(t).err
          THEN cst' = [cst EXCEPT ![c] = "401"]
          ELSE /\ c \in NewClient(validateToken(t).userID)
               /\ cst' = [cst EXCEPT ![c] = "registering"]
    /\ UNCHANGED <<clients, broadcast, hub, send, closed, enq, nextMsg, hnd>>

\* Run receives from h.register; the handler goes on and starts the pumps
RunRegister(c) ==
    /\ UNCHANGED nonHubVars
    /\ hub.pc = "select"
    /\ cst[c] = "registering"
    /\ RegisterCase(c)
    /\ cst' = [cst EXCEPT ![c] = "open"]
    /\ UNCHANGED <<broadcast, hub, send, closed, enq, nextMsg, hnd>>

\* the connection ends: ReadMessage returns an error (the peer closed, the
\* read deadline passed, or writePump returned after a failed write or ping
\* or after the hub closed the queue, and its deferred conn.Close() ran);
\* readPump's deferred function is at c.hub.unregister <- c
ReadPump(c) ==
    /\ UNCHANGED nonHubVars
    /\ cst[c] = "open"
    /\ cst' = [cst EXCEPT ![c] = "ended"]
    /\ UNCHANGED <<clients, broadcast, hub, send, closed, enq, nextMsg, hnd>>

\* Run receives from h.unregister
RunUnregister(c) ==
    /\ UNCHANGED nonHubVars
    /\ hub.pc = "select"
    /\ cst[c] = "ended"
    /\ UnregisterCase(c)
    /\ cst' = [cst EXCEPT ![c] = "gone"]
    /\ UNCHANGED <<broadcast, hub, send, enq, nextMsg, hnd>>

NextConn ==
    \/ \E c \in Conn, t \in Tokens : HandleWebSocket(c, t)
    \/ \E c \in Conn : RunRegister(c)
    \/ \E c \in Conn : ReadPump(c)
    \/ \E c \in Conn : RunUnregister(c)
    \/ \E u \in User : BroadcastToUser(u)
    \/ HubTake
    \/ \E c \in Conn : HubDeliver(c)
    \/ \E c \in Conn : WritePump(c)

Init == InitAuth /\ InitCache /\ InitHub /\ InitSess /\ InitWs /\ ~lsToken /\ InitPipe

\* the refresh coordinator, before anything is fetched
InitNothingFetched == Init /\ tasksQ = Undefined /\ listsQ = Undefined
SpecAuth == InitNothingFetched /\ [][NextAuth]_vars

\* the reconciler, signed in with a refresh token
InitSignedIn == Init /\ refreshToken = 0
SpecCache == InitSignedIn /\ [][NextCache]_vars

\* the hub, next to a client that is signed in and has fetched nothing
InitHubAlone == InitSignedIn /\ InitNothingFetched
SpecHub == InitHubAlone /\ [][NextHub]_vars

\* the connections from the upgrade request to the end
\* one upgrade request of each user is to come; the other connections have
\* ended and were unregistered
InitTwoToCome ==
    /\ clients = << >>
    /\ broadcast = <<>>
    /\ hub = [pc |-> "select", msg |-> NoMsg, todo |-> {}]
    /\ cst = [c \in Conn |-> IF c = 1 \/ c = NumConn THEN "new" ELSE "gone"]
    /\ send = [c \in Conn |-> <<>>]
    /\ closed = [c \in Conn |-> ~(c = 1 \/ c = NumConn)]
    /\ enq = [c \in Conn |-> 0]
    /\ nextMsg = 1
    /\ hnd = {}
InitNoConnection ==
    /\ InitAuth /\ refreshToken = 0
    /\ InitCache /\ tasksQ = Undefined /\ listsQ = Undefined
    /\ InitTwoToCome
    /\ InitSess
    /\ InitWs /\ ~lsToken
    /\ InitPipe
SpecConn == InitNoConnection /\ [][NextConn]_vars

\* Run is a goroutine that is scheduled: an iteration of the range loop that
\* can be made is made; select picks at random among the cases that are
\* ready, so a case that is ready again and again is taken
FairHub ==
    /\ WF_vars(\E c \in Conn : HubDeliver(c))
    /\ SF_vars(HubTake)
    /\ \A c \in Conn : SF_vars(RunRegister(c)) /\ SF_vars(RunUnregister(c))
SpecConnFair == SpecConn /\ FairHub

\* the handlers in front of a hub with two connections
InitHandlers ==
    /\ InitAuth /\ refreshToken = 0
    /\ InitCache /\ tasksQ = Undefined /\ listsQ = Undefined
    /\ InitConnected
    /\ InitSess
    /\ InitWs /\ ~lsToken
    /\ InitPipe
SpecHandlers == InitHandlers /\ [][NextHandlers]_vars

\* the create hooks alone
InitCreates ==
    /\ InitAuth /\ refreshToken = 0
    /\ InitCacheOf(NumCreate)
    /\ InitHub
    /\ InitSess
    /\ InitWs /\ ~lsToken
    /\ InitPipe
SpecCreates == InitCreates /\ [][NextCreates]_vars

\* the edit hooks, with everything fetched
InitEdits ==
    /\ InitAuth /\ refreshToken = 0
    /\ InitFetched
    /\ InitHub
    /\ InitSess
    /\ InitWs /\ ~lsToken
    /\ InitPipe
SpecEdits == InitEdits /\ [][NextEdits]_vars

\* the reconciler alone
InitReconciler ==
    /\ InitAuth /\ refreshToken = 0
    /\ InitAnyCache
    /\ InitHub
    /\ InitSess
    /\ InitWs /\ ~lsToken
    /\ InitPipe
SpecReconciler == InitReconciler /\ [][NextDeliver]_vars

\* the client transport alone
InitTransport ==
    /\ InitAuth /\ refreshToken = 0
    /\ InitCache /\ tasksQ = Undefined /\ listsQ = Undefined
    /\ InitHub
    /\ InitSess
    /\ InitWs
    /\ InitPipe
SpecWs == InitTransport /\ [][NextWs]_vars

\* one connection's frames, from the server's queue to the reconciler
InitPipeAlone == InitHubAlone
SpecPipe == InitPipeAlone /\ [][NextPipe]_vars

\* ws.onmessage on the frames of any peer
SpecFrames == InitPipeAlone /\ [][NextFrames]_vars

\* the two session endpoints alone
InitOneLogin == InitHubAlone
SpecSess == InitOneLogin /\ [][NextSess]_vars

\* the network answers every refresh call (with a response or with an error),
\* and a reload that was requested takes place
SpecAuthFair ==
    /\ SpecAuth
    /\ WF_vars(\E r \in Req : RefreshSuccess(r) \/ RefreshFail(r))
    /\ WF_vars(Reload)

\* ========================================================================
\* Properties of the refresh interceptor
\* ========================================================================
Outstanding == {r \in Req : rf[r].st # "none"}

\* the step is the 401 branch of the response interceptor for request r
Got401(r) ==
    req[r].st = "inflight" /\ req'[r].st \in {"queued", "refreshing", "rejected"}

\* the step is the continuation of r's refresh call after a 2xx answer
RefreshSucceeded(r) ==
    rf[r].st # "none" /\ rf'[r].st = "none" /\ req'[r].st = "inflight"

\* the step is the catch block of r's refresh call
RefreshFailed(r) ==
    rf[r].st # "none" /\ rf'[r].st = "none" /\ req'[r].st = "rejected_refresh"

C7_SingleFlight ==
    /\ [](Cardinality(Outstanding) <= 1)
    /\ [][(\E r \in Req : rf[r].st = "none" /\ rf'[r].st = "sent") => ~isRefreshing]_vars

C7_Witness ==
    \E r, q \in Req : rf[r].st = "sent" /\ req[q].st = "queued" /\ isRefreshing

C9_RefreshFailSignsOut ==
    [][\A r \in Req : RefreshFailed(r) =>
          /\ \A q \in Range(failedQueue) : req'[q].st = "rejected_refresh"
          /\ \A q \in Req : req[q].st = "queued" => req'[q].st = "rejected_refresh"
          /\ failedQueue' = <<>>
          /\ token' = NoTok /\ refreshToken' = NoTok /\ ~offlineCache'
          /\ ~isRefreshing'
          /\ \A q \in Req : req'[q].sends = req[q].sends]_vars

C9_Witness ==
    /\ \E r, q \in Req : r # q /\ req[r].st = "rejected_refresh" /\ req[r].retry
                         /\ req[q].st = "rejected_refresh" /\ ~req[q].retry
    /\ token = NoTok /\ refreshToken = NoTok /\ ~isRefreshing

SignedOut == token = NoTok /\ refreshToken = NoTok

C34_QueueOnlyWhileRefreshing ==
    /\ ~isRefreshing => failedQueue = <<>>
    /\ \A q \in Req : req[q].st = "queued" =>
          /\ q \in Range(failedQueue)
          /\ isRefreshing
          /\ \E r \in Req : rf[r] # NoRefresh

\* a refresh is over, the queue is empty, and a request that had waited in it
\* was sent a second time
C34_Witness ==
    /\ ~isRefreshing /\ failedQueue = <<>>
    /\ \A r \in Req : rf[r] = NoRefresh
    /\ \E q \in Req : req[q].sends = 2 /\ ~req[q].retry

\* the 401 of a request that was sent with an older credential than the one
\* stored is handled while no refresh is in progress
Late401(r) ==
    /\ Resp401(r)
    /\ ~req[r].retry /\ ~isRefreshing
    /\ refreshToken # NoTok /\ token # NoTok /\ req[r].tok < token

CountId(s, id) == Cardinality({i \in 1..Len(s) : s[i].id = id})

Collection(m) == IF muts[m].kind = "createList" THEN listsQ.data ELSE tasksQ.data

\* the step handles the later of the two events of creation m
LaterOfBoth(m) ==
    /\ muts[m].kind \in {"createTask", "createList"}
    /\ \/ MutSuccess(m) /\ muts[m].echo = "applied"
       \/ EchoArrives(m) /\ muts[m].phase = "succeeded"

\* no mutation was started after creation m, and none of the earlier ones was
\* rolled back
Undisturbed(m) ==
    \A x \in Mut \ {m} : IF x > m THEN muts[x].kind = "none" ELSE muts[x].phase # "failed"

\* C1: for an optimistic create of a task or of a list, once both the REST
\* success and the task_created / list_created envelope of that creation have
\* been handled, in either order, the collection holds exactly one entity
\* with the server-assigned id and none with the temp id
C1_CreateConverges ==
    [][\A m \in Mut : (LaterOfBoth(m) /\ Undisturbed(m)) =>
          /\ CountId(Collection(m)', muts[m].sid) = 1
          /\ ~HasId(Collection(m)', muts[m].tempId)]_vars

C1_Witness ==
    \E m \in Mut : /\ muts[m].kind = "createTask"
                   /\ muts[m].phase = "succeeded" /\ muts[m].echo = "applied"
                   /\ CountId(tasksQ.data, muts[m].sid) = 1
                   /\ ~HasId(tasksQ.data, muts[m].tempId)
                   /\ Len(tasksQ.data) = Len(ServerTasks) + 1

\* C2: for every mutation kind, if the request fails, the cache after the
\* error handling is the cache as it was right before the mutation started
C2_RollbackRestores ==
    [][\A m \in Mut : MutError(m) =>
          /\ muts[m].kind \in TaskKinds \cup {"deleteList"} => tasksQ' = muts[m].prevT
          /\ muts[m].kind \in ListKinds => listsQ' = muts[m].prevL]_vars

\* C4: handling a list_deleted envelope for list L removes L from the lists
\* and every task whose listId is L from the tasks
C4_ListDeletedCascades ==
    [][\A e \in OtherSessionEnvelopes : (e.type = "list_deleted" /\ EnvArrives(e)) =>
          /\ ~HasId(listsQ'.data, e.id)
          /\ \A i \in 1..Len(tasksQ'.data) : tasksQ'.data[i].listId # e.id]_vars

\* the envelope names some, not all, of the cached tasks
StrictSubset(e) ==
    /\ tasksQ.loaded
    /\ Range(e.ids) \subseteq Ids(tasksQ.data)
    /\ Range(e.ids) # Ids(tasksQ.data)

\* C5: a tasks_reordered envelope naming a strict subset of the cached task
\* ids puts the named tasks first, in payload order with sortOrder = index,
\* then the tasks not named in their previous relative order; handling the
\* same envelope again changes nothing
C5_ReorderSubset ==
    [][\A e \in OtherSessionEnvelopes :
          (e.type = "tasks_reordered" /\ EnvArrives(e) /\ StrictSubset(e)) =>
             LET old == tasksQ.data
                 new == tasksQ'.data
                 n == Len(e.ids)
             IN  /\ Len(new) >= n
                 /\ \A i \in 1..n : new[i].id = e.ids[i] /\ new[i].sortOrder = i - 1
                 /\ SubSeq(new, n + 1, Len(new))
                      = SelectSeq(old, LAMBDA t : t.id \notin Range(e.ids))
                 /\ HandleWebSocketEvent(tasksQ', listsQ', e).tasks = tasksQ']_vars

C5_Witness ==
    /\ tasksQ.loaded /\ envCount >= 1 /\ Len(tasksQ.data) >= 2
    /\ tasksQ.data[1].id = 2 /\ tasksQ.data[1].sortOrder = 0
    /\ tasksQ.data[2].id = 1 /\ tasksQ.data[2].sortOrder = 0

\* C17: applying an envelope is idempotent under redelivery, for every
\* kind: after an envelope was applied, applying the same envelope once more
\* leaves both collections as they are.
C17_Idempotent ==
    [][\A e \in AnyEnvelope : Deliver(e) =>
          HandleWebSocketEvent(tasksQ', listsQ', e) = Caches(tasksQ', listsQ')]_vars

\* task 3 was created by an envelope and a subtask was added to task 1 by
\* another: both are in the cache once
C17_Witness ==
    /\ envCount = 2 /\ tasksQ.loaded /\ Len(tasksQ.data) = 3
    /\ tasksQ.data[3] = Task(3, 0, 0, 2, <<>>)
    /\ tasksQ.data[1].id = 1
    /\ tasksQ.data[1].subtasks = <<Subtask(1, 1, 0), Subtask(2, 1, 2)>>

\* no two entries of the sequence have the same id
UniqueIds(s) == \A i, j \in 1..Len(s) : s[i].id = s[j].id => i = j

\* the ids the server has issued so far
ServerIds ==
    [task |-> 1..(srvIds.task - 1), list |-> 1..(srvIds.list - 1),
     sub |-> 1..(srvIds.sub - 1)]

\* C18: no two entries of a collection (tasks, lists, the subtasks of a
\* task) have the same id, in every interleaving of hooks and envelopes and
\* also for two creates that read the same clock value; and no temporary id
\* is an id the server issued for that kind of entity.
C18_UniqueIds ==
    /\ UniqueIds(tasksQ.data)
    /\ UniqueIds(listsQ.data)
    /\ \A i \in 1..Len(tasksQ.data) : UniqueIds(tasksQ.data[i].subtasks)
    /\ \A m \in Mut :
          /\ muts[m].kind = "createTask" => muts[m].tempId \notin ServerIds.task
          /\ muts[m].kind = "createList" => muts[m].tempId \notin ServerIds.list
          /\ muts[m].kind = "createSubtask" => muts[m].tempId \notin ServerIds.sub

\* C24: every optimistic mutation marks its query stale when it settles,
\* on success and on failure: the mutations on tasks and subtasks the tasks
\* query, the mutations on lists the lists query.
C24_SettledMarksStale ==
    [][\A m \in Mut : (MutSuccess(m) \/ MutError(m)) =>
          /\ muts[m].kind \in TaskKinds => tasksStale'
          /\ muts[m].kind \in ListKinds => listsStale']_vars

\* the step handles the later of the two events of subtask creation m
LaterOfBothSub(m) ==
    /\ muts[m].kind = "createSubtask"
    /\ \/ MutSuccess(m) /\ muts[m].echo = "applied"
       \/ EchoArrives(m) /\ muts[m].phase = "succeeded"

\* the subtasks of the task with that id, as cached after the step
SubtasksAfter(id) == MapGet(tasksQ'.data, id).subtasks

\* C25: for an optimistic create of a subtask, once its REST success and its
\* subtask_created envelope have both been handled, in either order and
\* with no refetch in between, the parent task holds exactly one subtask
\* with the id the server assigned and none with the temporary id.
C25_SubtaskCreateConverges ==
    [][\A m \in Mut : (LaterOfBothSub(m) /\ Undisturbed(m)
                          /\ HasId(tasksQ'.data, muts[m].v.id)) =>
          /\ CountId(SubtasksAfter(muts[m].v.id), muts[m].sid) = 1
          /\ ~HasId(SubtasksAfter(muts[m].v.id), muts[m].tempId)]_vars

\* the ids of a collection, in its order
IdSeq(s) == [i \in 1..Len(s) |-> s[i].id]

\* the step handles the envelope of own mutation m, a delete or a reorder
EchoOfEdit(m) ==
    /\ EchoArrives(m)
    /\ muts[m].kind \in {"deleteTask", "reorderTasks", "deleteSubtask",
                         "updateList", "deleteList"}

Starts(m) == muts[m].kind = "none" /\ muts'[m].kind # "none"

\* no list with that id and no task of that list
ListIsOut(t, l, id) ==
    /\ ~HasId(l.data, id)
    /\ \A i \in 1..Len(t.data) : t.data[i].listId # id

\* C33: the optimistic delete of a list takes the list and every task of
\* that list out of the cache in the step that starts it, and nothing else;
\* when the request fails, each collection that was loaded when the delete
\* started is again what it was then, and one that was not loaded is left as
\* it is; when the request succeeds, neither the list nor a task of it is left.
C33_ListDeleteCascades ==
    [][\A m \in Mut :
          /\ (Starts(m) /\ muts'[m].kind = "deleteList") =>
                /\ ListIsOut(tasksQ', listsQ', muts'[m].v.id)
                /\ listsQ'.data = WithoutId(listsQ.data, muts'[m].v.id)
                /\ tasksQ'.data = SelectSeq(tasksQ.data,
                                     LAMBDA x : x.listId # muts'[m].v.id)
          /\ (MutError(m) /\ muts[m].kind = "deleteList") =>
                /\ listsQ' = (IF muts[m].prevL.loaded THEN muts[m].prevL ELSE listsQ)
                /\ tasksQ' = (IF muts[m].prevT.loaded THEN muts[m].prevT ELSE tasksQ)
          /\ (MutSuccess(m) /\ muts[m].kind = "deleteList") =>
                ListIsOut(tasksQ', listsQ', muts[m].v.id)]_vars

\* the delete of list 1, which held task 1, has failed and both collections
\* are as fetched
C33_Witness ==
    \E m \in Mut : /\ muts[m].kind = "deleteList" /\ muts[m].v.id = 1
                   /\ muts[m].phase = "failed"
                   /\ tasksQ = Loaded(ServerTasks) /\ listsQ = Loaded(ServerLists)

\* the text of task id in a collection (-1: no such task)
TextOf(s, id) == IF HasId(s, id) THEN MapGet(s, id).text ELSE -1

\* C35: when an update or a delete of a task fails, the cache becomes the
\* snapshot taken when it started: a task that a later delete took out is in
\* the cache again, a task that a later update or an envelope changed has
\* the text of the snapshot, whether the later request has succeeded, will
\* succeed or is still in flight.
C35_RollbackDiscardsLater ==
    [][\A a \in Mut :
          (MutError(a) /\ muts[a].kind \in EditKinds /\ muts[a].prevT.loaded) =>
             /\ tasksQ' = muts[a].prevT
             /\ \A b \in Mut : (b > a /\ muts[b].kind = "deleteTask"
                                  /\ HasId(muts[a].prevT.data, muts[b].v.id)) =>
                    HasId(tasksQ'.data, muts[b].v.id)
             /\ \A id \in Ids(muts[a].prevT.data) :
                    TextOf(tasksQ'.data, id) = TextOf(muts[a].prevT.data, id)]_vars

\* the update of task 1 has failed after the later delete of task 2 had
\* succeeded, and task 2 is in the cache
C35_Witness ==
    \E a, b \in Mut : /\ a < b
                      /\ muts[a].kind = "updateTask" /\ muts[a].phase = "failed"
                      /\ muts[b].kind = "deleteTask" /\ muts[b].phase = "succeeded"
                      /\ HasId(tasksQ.data, muts[b].v.id)

\* C36: while ['tasks'] has no data, every envelope that arrives, the
\* list_created, list_updated and list_deleted ones as well, leaves the
\* tasks and the lists as they are.
C36_DroppedWhileUnloaded ==
    [][\A e \in AnyEnvelope : (Deliver(e) /\ ~tasksQ.loaded) =>
          tasksQ' = tasksQ /\ listsQ' = listsQ]_vars

\* envelopes have arrived while the lists were fetched and the tasks not
C36_Witness ==
    ~tasksQ.loaded /\ listsQ.loaded /\ Len(listsQ.data) = 2 /\ envCount >= 1

\* C38: a reorder keeps the content of the collection. For every id list,
\* also one that names ids the cache does not hold or names an id twice, the
\* tasks_reordered envelope leaves every id in the cache as often as it was
\* there before, and its result is the one the optimistic reorder of
\* useReorderTasks gives for the same cache and the same id list.
C38_ReorderKeepsContent ==
    [][\A e \in AnyEnvelope :
          (Deliver(e) /\ e.type = "tasks_reordered" /\ tasksQ.loaded) =>
             /\ \A id \in Ids(tasksQ.data) \cup Ids(tasksQ'.data) :
                    CountId(tasksQ'.data, id) = CountId(tasksQ.data, id)
             /\ tasksQ' = OnMutate("reorderTasks", V(0, 0, e.ids), tasksQ, listsQ, 0).tasks]_vars

\* ========================================================================
\* Properties of the hub
\* ========================================================================
\* the hub can go on: no iteration of the range loop waits for a queue, and
\* an envelope on h.broadcast can be taken whenever the loop is over
NeverBlocked ==
    /\ hub.pc = "loop" => \A c \in hub.todo : ENABLED HubDeliver(c)
    /\ (hub.pc = "select" /\ broadcast # <<>>) => ENABLED HubTake

\* the range loop handles connection c and finds its queue full
FindsFull(c) == HubDeliver(c) /\ Len(send[c]) = SendCap

\* the range loop handles its last connection
LoopEnds == hub.pc = "loop" /\ hub'.pc = "select"

\* C6: when a publish finds the queue of a connection full, the connection
\* is removed from the registry and its queue closed; every other registered
\* connection of the user whose queue has room gets the envelope; the hub
\* never waits, so later publishes, for the same and for other users, are
\* handled in the same way
C6_SlowConsumerEvicted ==
    /\ [][\A c \in Conn : FindsFull(c) =>
             /\ c \notin clients'[hub.msg.user]
             /\ closed'[c]
             /\ \A d \in hub.todo \ {c} : d \in clients'[hub.msg.user] /\ ~closed'[d]]_vars
    /\ [][\A c \in Conn : (HubDeliver(c) /\ Len(send[c]) < SendCap) =>
             /\ send'[c] = Append(send[c], hub.msg.id)
             /\ c \in clients'[hub.msg.user]]_vars
    /\ [][LoopEnds => \A d \in clients'[hub.msg.user] : enq'[d] = hub.msg.id]_vars
    /\ []NeverBlocked

\* connection 1 was evicted at envelope 2, connection 2 of the same user
\* got envelope 2, and the next envelope reached the other user
C6_Witness ==
    /\ closed[1] /\ cst[1] = "open" /\ enq[1] = 1
    /\ 1 \notin ClientsOf(1)
    /\ 2 \in ClientsOf(1) /\ enq[2] = 2
    /\ enq[NumConn] = 3 /\ NumConn \in ClientsOf(2)

\* C14: an envelope published for a user is put only on the queues of
\* connections that are registered under that user: a queue grows only by
\* the envelope the loop is handling, whose user is the connection's user
\* and has the connection in its set; the registry files every connection
\* under the user its token named.
C14_OnlyOwnConnections ==
    /\ [][\A c \in Conn : Len(send'[c]) > Len(send[c]) =>
             /\ hub.pc = "loop"
             /\ hub.msg.user = UserOf(c)
             /\ c \in ClientsOf(hub.msg.user)
             /\ send'[c] = Append(send[c], hub.msg.id)]_vars
    /\ [](\A u \in DOMAIN clients : \A c \in clients[u] : UserOf(c) = u)

\* both users are connected and the one envelope published
\* so far was for user 1: it was put on both connections of user 1 and not
\* on the connection of user 2
C14_Witness ==
    /\ nextMsg = 2 /\ broadcast = <<>> /\ hub.pc = "select"
    /\ {1, 2} \subseteq ClientsOf(1) /\ NumConn \in ClientsOf(2)
    /\ enq[1] = 1 /\ enq[2] = 1 /\ enq[NumConn] = 0

\* C23: the registry never holds a user whose set of connections is empty,
\* after any sequence of register, unregister and publish, a publish that
\* evicts a connection with a full queue included.
C23_NoEmptySet == \A u \in DOMAIN clients : clients[u] # {}

\* ========================================================================
\* Properties of the mutation handlers
\* ========================================================================
\* a step puts an envelope on h.broadcast
Publishes == Len(broadcast') > Len(broadcast)

\* the handler returns (its response was written)
Returns(h) == h \in hnd /\ h \notin hnd' /\ hnd' \subseteq hnd

\* C15: a mutation handler publishes only when its write has committed, a
\* handler whose validation or write failed publishes nothing, and a
\* handler that succeeded has published exactly one envelope, of the kind of
\* its route and for its user, when it writes its response.
C15_PublishAfterCommit ==
    /\ [][Publishes =>
             \E h \in hnd :
                /\ h.pc = "committed" /\ h.id > 0
                /\ [h EXCEPT !.pc = "published"] \in hnd'
                /\ broadcast' = Append(broadcast,
                      [user |-> h.user, id |-> h.id,
                       type |-> IF h.route = "handleCreateTask"
                                THEN "task_created" ELSE "tasks_reordered"])]_vars
    /\ [][\A h \in hnd : Returns(h) =>
             IF h.id > 0 THEN h.pc = "published" ELSE h.pc = "failed"]_vars
    /\ [][\A h \in hnd : h.pc \in {"published", "failed"} =>
             (~Publishes \/ h \in hnd')]_vars

\* a reorder of user 1 committed second, was published and delivered and
\* has not been answered yet, next to a handler that failed
C15_Witness ==
    /\ Running("handleReorderTasks", 1, 2, "published") \in hnd
    /\ enq[1] = 2
    /\ \E g \in hnd : g.pc = "failed"

\* C16: envelopes of one user reach every registered connection in the
\* order in which their writes committed (handlers number their writes in
\* commit order): a connection is never handed an envelope older than the
\* last one it was handed, also when the handlers run concurrently.
C16_CommitOrder ==
    [][\A c \in Conn : Len(send'[c]) > Len(send[c]) => hub.msg.id > enq[c]]_vars

\* ========================================================================
\* Properties of the session endpoints
\* ========================================================================
\* the refresh token that was issued together with access token t
RefreshTokenOf(t) == Rt(t[2])

\* C11: a refresh request whose body is the refresh token of a live session
\* is answered with a fresh pair; in particular it is not turned away for
\* the access token it does not carry or that has expired.
C11_RefreshSucceeds ==
    [][\A i \in Call :
          (RequireAuth(i) /\ calls[i].route = "refresh"
                          /\ GetSessionByToken(db, calls[i].body))
          => calls'[i].res # 401]_vars

\* C12: a refresh token is redeemed successfully at most once: no two
\* refresh requests presenting the same token are both answered 200,
\* whether they are handled one after the other or concurrently.
C12_RedeemedAtMostOnce ==
    \A i, j \in Call :
        (/\ i # j
         /\ calls[i].route = "refresh" /\ calls[j].route = "refresh"
         /\ calls[i].body = calls[j].body
         /\ calls[i].res = 200)
        => calls[j].res # 200

\* C13: once a logout request was answered 200, the session it was sent
\* from has no row left, so its refresh token cannot be redeemed.
C13_LogoutInvalidates ==
    \A i \in Call :
        (calls[i].route = "logout" /\ calls[i].res = 200)
        => ~GetSessionByToken(db, RefreshTokenOf(calls[i].hdr))

\* ========================================================================
\* Properties of the client transport
\* ========================================================================
\* the sockets that are connecting or open
Live == {s \in Sock : sock[s] \in {"CONNECTING", "OPEN"}}

\* C19: the client never has two sockets that are connecting or open at the
\* same time, whatever the order of connect calls, disconnect calls, storage
\* events, reconnect timers and socket callbacks (a close event that comes
\* after a newer socket was created included).
C19_OneLiveSocket == Cardinality(Live) <= 1

\* a timeout is set in this step
SetsTimeout == \E t \in Timer : timers[t] = 0 /\ timers'[t] # 0

C21_DisconnectIsFinal ==
    [][\A s \in Sock : (OnClose(s) /\ sock[s] = "CLOSING") => ~SetsTimeout]_vars

\* ========================================================================
\* Properties of the frames
\* ========================================================================
\* the messages of a frame that are JSON objects, parsed, in frame order
WellFormedOf(data) ==
    LET ms == SelectSeq(NonBlank(Split(data)), Parses)
    IN  [i \in 1..Len(ms) |-> JSONparse(ms[i])]

\* C22: a malformed envelope in a frame is dropped and nothing else is: the
\* well-formed envelopes of the frame, those before and those after the
\* malformed one, are all handed to the reconciler, in frame order.
C22_MalformedDropped ==
    [][OnMessage => pipe'.handed = pipe.handed \o WellFormedOf(Head(pipe.wire))]_vars

\* the envelopes of the frames under way and of the queue, as the client
\* will get them
RECURSIVE Flatten(_)
Flatten(fs) == IF fs = <<>> THEN <<>> ELSE OnMessageOf(Head(fs)) \o Flatten(Tail(fs))

\* C28: whatever way writePump packs the queued envelopes into frames, the
\* client hands the reconciler the enqueued envelopes, in the same order,
\* none lost, duplicated, split or merged: what was handed over, followed by
\* what the frames under way and the queue will give, is what was enqueued.
C28_FramesRoundTrip ==
    pipe.handed \o Flatten(pipe.wire) \o Flatten(pipe.send) = pipe.enqueued

\* three envelopes, the second with a line feed in its text, went through
\* the queue and the frames and were all handed over
C28_Witness ==
    /\ pipe.enqueued = <<<<"a">>, <<"a", LF>>, <<"b">>>>
    /\ pipe.handed = pipe.enqueued
    /\ pipe.send = <<>> /\ pipe.wire = <<>>

\* ========================================================================
\* Properties of the connections
\* ========================================================================
\* the token is there, its signature verifies, it has not expired and it
\* names a user
Validated(t) == t.present /\ t.signed /\ ~t.expired /\ t.sub \in User

Registered == UNION {clients[u] : u \in DOMAIN clients}

\* C29: a connection is registered only for an upgrade request whose token
\* validated, and under the user that token names: the handler answers a
\* request without a valid token with 401 and one with a valid token by
\* handing over a Client of the token's user; a request answered 401 stays
\* so; only a Client that was handed over enters the registry, and it is
\* filed under its user.
C29_OnlyValidatedRegister ==
    /\ [][\A c \in Conn, t \in Tokens : HandleWebSocket(c, t) =>
             IF Validated(t) THEN cst'[c] = "registering" /\ UserOf(c) = t.sub
                             ELSE cst'[c] = "401"]_vars
    /\ [][\A c \in Conn : cst[c] = "401" => cst'[c] = "401"]_vars
    /\ [][\A c \in Registered' \ Registered : cst[c] = "registering"]_vars
    /\ [](\A u \in DOMAIN clients : \A c \in clients[u] :
             UserOf(c) = u /\ cst[c] \in {"open", "ended"})

\* one request was answered 401, another one is registered under its user
C29_Witness ==
    \E c, d \in Conn : /\ cst[c] = "401" /\ c \notin Registered
                        /\ cst[d] = "open" /\ d \in ClientsOf(UserOf(d))

\* C27: publishing never waits for a consumer. A range loop that has begun
\* comes to its end whatever the queues hold; a Client handed over for
\* registration is received; a Client handed over for removal is received;
\* a full h.broadcast gets room again, so that a BroadcastToUser that waits
\* returns. (Under FairHub; no step of a consumer is assumed.)
C27_RequestsComplete ==
    /\ (hub.pc = "loop") ~> (hub.pc = "select")
    /\ \A c \in Conn : (cst[c] = "registering") ~> (cst[c] = "open")
    /\ \A c \in Conn : (cst[c] = "ended") ~> (cst[c] = "gone")
    /\ (Len(broadcast) = BroadcastCap) ~> (Len(broadcast) < BroadcastCap)

\* the loop is at a connection whose queue is full while another envelope
\* is on h.broadcast and another Client waits to be received
C27_Witness ==
    /\ hub.pc = "loop"
    /\ \E c \in hub.todo : Len(send[c]) = SendCap
    /\ broadcast # <<>>
    /\ \E d \in Conn : cst[d] \in {"registering", "ended"}

\* C30: a registered connection that has ended, by itself or by eviction, is
\* in the end out of the registry with its queue closed; a closed queue
\* never belongs to a registered connection.
C30_EndedIsCleanedUp ==
    /\ \A c \in Conn : (cst[c] = "ended" \/ closed[c]) ~>
                           (closed[c] /\ c \notin Registered)
    /\ [](\A c \in Registered : ~closed[c])

\* one connection ended and was unregistered, the other was evicted
C30_Witness ==
    \E c, d \in Conn : /\ cst[c] = "gone" /\ closed[c] /\ enq[c] > 0
                        /\ cst[d] = "open" /\ closed[d] /\ d \notin Registered

\* a step that runs close(client.send) for connection c: the eviction, or
\* the unregister case for a connection it finds
ClosesQueue(c) == FindsFull(c) \/ (HubUnregister(c) /\ Present(c))

\* C31: closed is terminal for a connection of the hub. Once its queue is
\* closed it stays closed, it is in no set of the registry after any step,
\* no step makes its queue longer, and no step closes its queue again.
C31_ClosedIsTerminal ==
    /\ [][\A c \in Conn : closed[c] =>
             /\ closed'[c]
             /\ c \notin UNION {clients'[u] : u \in DOMAIN clients'}
             /\ Len(send'[c]) <= Len(send[c])]_vars
    /\ [][\A c \in Conn : ClosesQueue(c) => ~closed[c]]_vars

\* connection c was evicted (closed while its readPump runs), and a later
\* envelope of the same user was put on the queue of connection d only
C31_Witness ==
    \E c, d \in Conn : /\ UserOf(c) = UserOf(d)
                        /\ closed[c] /\ cst[c] = "open"
                        /\ d \in ClientsOf(UserOf(d))
                        /\ enq[d] >= enq[c] + 2

====
